---- MODULE Spec2Model ----
(***************************************************************************)
(* Model of the reio buffer engine: reio::owning_buffer (a growable byte   *)
(* buffer that owns one allocation), reio::weak_buffer (a non-owning view) *)
(* and the base_allocator they sit on.                                     *)
(*                                                                         *)
(* A pointer is a record [blk, off]: the block it points into (0 is the    *)
(* null pointer) and the byte offset inside that block.  The heap maps a   *)
(* block to its bytes.  The bytes of a freshly allocated block are         *)
(* indeterminate: the allocator's answer chooses them.                     *)
(*                                                                         *)
(* Every member function is an operator from the object, the heap and the  *)
(* call's arguments to a result [outcome, buf, heap, ret]; outcome is      *)
(* "ok" (the call returned), "fail" (REIO_ASSERT / REIO_FAIL threw an      *)
(* io_exception) or "crash" (a call through a null allocator pointer).     *)
(* The actions apply these operators to the objects of the program.        *)
(***************************************************************************)
EXTENDS Integers, Sequences, FiniteSets, TLC

\* ------------------------------------------------------------------ bounds
\* Largest block the allocator hands out; larger requests return null.
MaxCap == 3
\* Longest source range passed to overwrite / insert.
MaxSrc == 2

\* ------------------------------------------------------------ value domains
Obj == {1}
Byte == {0, 1}
\* The addresses the allocator hands out: the one a buffer owns and the one
\* it moves to when it grows.
Blocks == {1, 2}
Growth == {"none", "tight", "mult2x"}
k_default_growth_factor == "mult2x"

Max(x, y) == IF x >= y THEN x ELSE y

SeqsUpTo(S, n) == UNION {[1..k -> S] : k \in 0..n}

\* ----------------------------------------------------------------- pointers
nullptr == [blk |-> 0, off |-> 0]
PtrAdd(p, d) == [blk |-> p.blk, off |-> p.off + d]
PtrDiff(p, q) == p.off - q.off
\* p <= q as the build compares addresses: the null pointer is below every
\* block, and two pointers into one block compare by offset.
PtrLe(p, q) ==
    IF p.blk = q.blk THEN p.off <= q.off ELSE p.blk < q.blk

\* size_type is std::size_t, and an address is as wide: SizeBits bits (64 in
\* the build).
SizeBits == 3
SizeModulus == 2^SizeBits
size_type == 0..(SizeModulus - 1)

\* p + n for a size_type n, as a build with flat addresses computes it when
\* the block p points into starts at address base: the sum of the addresses
\* modulo SizeModulus.  The offset of the result is below 0 when the sum
\* wraps round to an address below the block.
PtrAddSize(p, n, base) ==
    [blk |-> p.blk, off |-> ((base + p.off + n) % SizeModulus) - base]
\* p - n likewise.
PtrSubSize(p, n, base) ==
    [blk |-> p.blk, off |-> ((base + p.off - n) % SizeModulus) - base]

\* --------------------------------------------------------------------- heap
FreeBlock == [st |-> "free", bytes |-> <<>>]
EmptyHeap == [a \in Blocks |-> FreeBlock]

\* The allocator's answer to an allocate() call: the block it hands out (0
\* for a null block, i.e. failure), the junk byte its fresh memory holds and
\* the room it has, i.e. the largest request it satisfies.
NoBlock == [blk |-> 0, junk |-> 0, room |-> 0]
AllocResponses(room) ==
    {NoBlock} \cup {[blk |-> k, junk |-> j, room |-> room] : k \in Blocks, j \in Byte}

\* base_allocator::allocate(size): the pointer returned when the allocator
\* gives answer a.  A block that is outstanding at the time of the call
\* cannot be handed out again, and a request above the allocator's room is
\* not satisfied; both give the null block.
allocate_ptr(h, size, a) ==
    IF a.blk = 0 \/ size > a.room THEN nullptr
    ELSE IF h[a.blk].st # "free" THEN nullptr
    ELSE [blk |-> a.blk, off |-> 0]

\* The addresses the block of p can start at: above the null address, with
\* its one-past-the-end address inside the address space.  The null pointer
\* is address 0.
Bases(h, p) ==
    IF p.blk = 0 THEN {0} ELSE 1..(SizeModulus - 1 - Len(h[p.blk].bytes))

\* Heap after allocate(size) returned p: the block is outstanding and holds
\* the junk of answer a.
allocate_heap(h, size, p, a) ==
    IF p.blk = 0 THEN h
    ELSE [h EXCEPT ![p.blk] = [st |-> "live", bytes |-> [i \in 1..size |-> a.junk]]]

\* base_allocator::deallocate(ptr); deallocating the null pointer is a no-op
\* (delete[] nullptr).
deallocate(h, p) ==
    IF p.blk = 0 THEN h ELSE [h EXCEPT ![p.blk] = FreeBlock]

\* Bytes of the block p points into, and the heap after storing bytes s at
\* p (std::copy / std::copy_n / std::fill into raw memory).
BlockBytes(h, p) == IF p.blk = 0 THEN <<>> ELSE h[p.blk].bytes
Store(h, p, s) ==
    IF Len(s) = 0 THEN h
    ELSE [h EXCEPT ![p.blk].bytes =
            [i \in 1..Len(@) |->
                IF i > p.off /\ i <= p.off + Len(s) THEN s[i - p.off] ELSE @[i]]]
\* The n bytes stored at p.
Load(h, p, n) == [i \in 1..n |-> BlockBytes(h, p)[p.off + i]]

\* std::shift_right(first, last, n) on the bytes of one block: no effect when
\* n <= 0 or n >= last - first, otherwise [first, last - n) moves to
\* [first + n, last) and the first n bytes keep their old values.
shift_right(h, first, last, n) ==
    IF n <= 0 \/ n >= PtrDiff(last, first) THEN h
    ELSE [h EXCEPT ![first.blk].bytes =
            [i \in 1..Len(@) |->
                IF i > first.off + n /\ i <= last.off THEN @[i - n] ELSE @[i]]]

\* std::shift_left-style move used by erase: [last, end) moves to first.
move_left(h, first, last, end) ==
    Store(h, first, Load(h, last, PtrDiff(end, last)))

\* ------------------------------------------------------------ owning_buffer
\* The moved-from / default state of the five members.
EmptyBuffer(alloc) ==
    [m_begin |-> nullptr, m_end |-> nullptr, m_alloc_end |-> nullptr,
     m_allocator |-> alloc, m_growth |-> k_default_growth_factor]

data(b) == b.m_begin
length(b) == PtrDiff(b.m_end, b.m_begin)
capacity(b) == PtrDiff(b.m_alloc_end, b.m_begin)
\* The used bytes [m_begin, m_end).
Contents(h, b) == Load(h, b.m_begin, length(b))

Res(outcome, b, h, ret) == [outcome |-> outcome, buf |-> b, heap |-> h, ret |-> ret]

iter_within(b, iter) == PtrLe(b.m_begin, iter) /\ PtrLe(iter, b.m_end)

\* while (next < over) next *= 2u;  for requests of up to half the range of
\* size_type, where no doubling wraps; GrowDouble has the loop step by step
\* at the width of size_type.
RECURSIVE Doubled(_, _)
Doubled(next, over) == IF next < over THEN Doubled(next * 2, over) ELSE next

\* next_capacity that treats "none" like "tight" instead of failing.
next_capacity_none_grows(b, over) ==
    CASE b.m_growth = "mult2x" -> [thrown |-> FALSE,
                                   val |-> Doubled(Max(1, capacity(b)), over)]
      [] OTHER                 -> [thrown |-> FALSE, val |-> over]

\* next_capacity whose "tight" case rounds the request up to an even size.
next_capacity_tight_rounds(b, over) ==
    CASE b.m_growth = "none"   -> [thrown |-> TRUE, val |-> 0]
      [] b.m_growth = "tight"  -> [thrown |-> FALSE, val |-> over + (over % 2)]
      [] b.m_growth = "mult2x" -> [thrown |-> FALSE,
                                   val |-> Doubled(Max(1, capacity(b)), over)]
      [] OTHER                 -> [thrown |-> TRUE, val |-> 0]

\* next_capacity whose "mult2x" case doubles once and then takes the request
\* if that is still too small.
next_capacity_doubles_once(b, over) ==
    CASE b.m_growth = "none"   -> [thrown |-> TRUE, val |-> 0]
      [] b.m_growth = "tight"  -> [thrown |-> FALSE, val |-> over]
      [] b.m_growth = "mult2x" -> [thrown |-> FALSE,
                                   val |-> Max(over, 2 * Max(1, capacity(b)))]
      [] OTHER                 -> [thrown |-> TRUE, val |-> 0]

\* owning_buffer::next_capacity: [thrown, val].
next_capacity(b, over) ==
    CASE b.m_growth = "none"   -> [thrown |-> TRUE, val |-> 0]
      [] b.m_growth = "tight"  -> [thrown |-> FALSE, val |-> over]
      [] b.m_growth = "mult2x" -> [thrown |-> FALSE,
                                   val |-> Doubled(Max(1, capacity(b)), over)]
      [] OTHER                 -> [thrown |-> TRUE, val |-> 0]

\* The pointers owning_buffer::do_realloc passes to deallocate, in order,
\* and the heap at the time of the call: the new block is outstanding then.
do_realloc_deallocate(b, h, new_capacity, a) ==
    LET allocation == allocate_ptr(h, new_capacity, a)
    IN  IF new_capacity > capacity(b) /\ b.m_allocator # 0 /\ allocation # nullptr
        THEN [ptrs |-> <<b.m_begin>>, heap |-> allocate_heap(h, new_capacity, allocation, a),
              allocation |-> allocation]
        ELSE [ptrs |-> <<>>, heap |-> h, allocation |-> allocation]

\* do_realloc that repoints the buffer but keeps the old capacity in
\* m_alloc_end.
do_realloc_stale_capacity(b, h, new_capacity, a) ==
    LET old_length == length(b)
        old_capacity == capacity(b)
    IN  IF new_capacity > old_capacity
        THEN IF b.m_allocator = 0 THEN Res("crash", b, h, nullptr)
             ELSE LET allocation == allocate_ptr(h, new_capacity, a)
                      h1 == allocate_heap(h, new_capacity, allocation, a)
                      h2 == Store(h1, allocation, Load(h1, b.m_begin, old_length))
                      h3 == deallocate(h2, b.m_begin)
                  IN  IF allocation = nullptr THEN Res("fail", b, h, nullptr)
                      ELSE Res("ok",
                               [b EXCEPT !.m_begin = allocation,
                                         !.m_end = PtrAdd(allocation, old_length),
                                         !.m_alloc_end = PtrAdd(allocation, old_capacity)],
                               h3, nullptr)
        ELSE Res("ok", b, h, nullptr)

\* do_realloc that returns the old block to the allocator before it asks
\* for the new one (the old bytes are saved first).
do_realloc_frees_first(b, h, new_capacity, a) ==
    LET old_length == length(b)
        old_capacity == capacity(b)
    IN  IF new_capacity > old_capacity
        THEN IF b.m_allocator = 0 THEN Res("crash", b, h, nullptr)
             ELSE LET saved == Load(h, b.m_begin, old_length)
                      h0 == deallocate(h, b.m_begin)
                      allocation == allocate_ptr(h0, new_capacity, a)
                      h1 == allocate_heap(h0, new_capacity, allocation, a)
                      h2 == Store(h1, allocation, saved)
                  IN  IF allocation = nullptr THEN Res("fail", b, h, nullptr)
                      ELSE Res("ok",
                               [b EXCEPT !.m_begin = allocation,
                                         !.m_end = PtrAdd(allocation, old_length),
                                         !.m_alloc_end = PtrAdd(allocation, new_capacity)],
                               h2, nullptr)
        ELSE Res("ok", b, h, nullptr)

\* owning_buffer::do_realloc; a is the allocator's answer if it is asked.
do_realloc(b, h, new_capacity, a) ==
    LET old_length == length(b)
        old_capacity == capacity(b)
    IN  IF new_capacity > old_capacity
        THEN IF b.m_allocator = 0 THEN Res("crash", b, h, nullptr)
             ELSE LET allocation == allocate_ptr(h, new_capacity, a)
                      h1 == allocate_heap(h, new_capacity, allocation, a)
                      h2 == Store(h1, allocation, Load(h1, b.m_begin, old_length))
                      h3 == deallocate(h2, b.m_begin)
                  IN  IF allocation = nullptr THEN Res("fail", b, h, nullptr)
                      ELSE Res("ok",
                               [b EXCEPT !.m_begin = allocation,
                                         !.m_end = PtrAdd(allocation, old_length),
                                         !.m_alloc_end = PtrAdd(allocation, new_capacity)],
                               h3, nullptr)
        ELSE Res("ok", b, h, nullptr)

\* A source range [src_begin, src_end) over the caller's array: positions
\* sb and se into the byte sequence arr.
Src(arr, sb, se) == [arr |-> arr, sb |-> sb, se |-> se]
SrcBytes(src) == SubSeq(src.arr, src.sb + 1, src.se)

\* overwrite that ends the buffer at the last byte written, also when that
\* lies below the old end.
overwrite_truncates(b, h, src, dest_begin, a) ==
    IF ~(src.sb <= src.se) THEN Res("fail", b, h, nullptr)
    ELSE IF ~iter_within(b, dest_begin) THEN Res("fail", b, h, nullptr)
    ELSE
      LET space_available == PtrDiff(b.m_alloc_end, dest_begin)
          write_length == src.se - src.sb
          write_offset == PtrDiff(dest_begin, b.m_begin)
          grow == write_length > space_available
          nc == next_capacity(b, write_offset + write_length)
          r == IF grow /\ ~nc.thrown THEN do_realloc(b, h, nc.val, a)
               ELSE Res("ok", b, h, nullptr)
          b2 == [r.buf EXCEPT !.m_end =
                    PtrAdd(r.buf.m_begin, write_offset + write_length)]
          dst == PtrAdd(b2.m_begin, write_offset)
      IN  IF grow /\ nc.thrown THEN Res("fail", b, h, nullptr)
          ELSE IF r.outcome # "ok" THEN r
          ELSE Res("ok", b2, Store(r.heap, dst, SrcBytes(src)),
                   PtrAdd(dst, write_length))

\* overwrite that moves m_end before it grows, so that a throw from
\* next_capacity or do_realloc leaves the new end behind.
overwrite_sets_end_first(b, h, src, dest_begin, a) ==
    IF ~(src.sb <= src.se) THEN Res("fail", b, h, nullptr)
    ELSE IF ~iter_within(b, dest_begin) THEN Res("fail", b, h, nullptr)
    ELSE
      LET old_length == PtrDiff(b.m_end, b.m_begin)
          space_available == PtrDiff(b.m_alloc_end, dest_begin)
          write_length == src.se - src.sb
          write_offset == PtrDiff(dest_begin, b.m_begin)
          grow == write_length > space_available
          b1 == [b EXCEPT !.m_end =
                    PtrAdd(b.m_begin, Max(old_length, write_offset + write_length))]
          nc == next_capacity(b1, write_offset + write_length)
          r == IF grow /\ ~nc.thrown THEN do_realloc(b1, h, nc.val, a)
               ELSE Res("ok", b1, h, nullptr)
          dst == PtrAdd(r.buf.m_begin, write_offset)
      IN  IF grow /\ nc.thrown THEN Res("fail", b1, h, nullptr)
          ELSE IF r.outcome # "ok" THEN r
          ELSE Res("ok", r.buf, Store(r.heap, dst, SrcBytes(src)),
                   PtrAdd(dst, write_length))

\* owning_buffer::overwrite(src_begin, src_end, dest_begin)
overwrite(b, h, src, dest_begin, a) ==
    IF ~(src.sb <= src.se) THEN Res("fail", b, h, nullptr)
    ELSE IF ~iter_within(b, dest_begin) THEN Res("fail", b, h, nullptr)
    ELSE
      LET old_length == PtrDiff(b.m_end, b.m_begin)
          space_available == PtrDiff(b.m_alloc_end, dest_begin)
          write_length == src.se - src.sb
          write_offset == PtrDiff(dest_begin, b.m_begin)
          grow == write_length > space_available
          nc == next_capacity(b, write_offset + write_length)
          r == IF grow /\ ~nc.thrown THEN do_realloc(b, h, nc.val, a)
               ELSE Res("ok", b, h, nullptr)
          b2 == [r.buf EXCEPT !.m_end =
                    PtrAdd(r.buf.m_begin, Max(old_length, write_offset + write_length))]
          dst == PtrAdd(b2.m_begin, write_offset)
      IN  IF grow /\ nc.thrown THEN Res("fail", b, h, nullptr)
          ELSE IF r.outcome # "ok" THEN r
          ELSE Res("ok", b2, Store(r.heap, dst, SrcBytes(src)),
                   PtrAdd(dst, write_length))

\* insert that shifts [dest, m_end) instead of [dest, m_alloc_end): the
\* bytes that should move past the old end are lost.
insert_shifts_to_end(b, h, src, dest_begin, a) ==
    IF ~(src.sb <= src.se) THEN Res("fail", b, h, nullptr)
    ELSE IF ~iter_within(b, dest_begin) THEN Res("fail", b, h, nullptr)
    ELSE
      LET old_length == PtrDiff(b.m_end, b.m_begin)
          space_available == PtrDiff(b.m_alloc_end, b.m_end)
          write_length == src.se - src.sb
          write_offset == PtrDiff(dest_begin, b.m_begin)
          grow == write_length > space_available
          nc == next_capacity(b, old_length + write_length)
          r == IF grow /\ ~nc.thrown THEN do_realloc(b, h, nc.val, a)
               ELSE Res("ok", b, h, nullptr)
          dest_iter == PtrAdd(r.buf.m_begin, write_offset)
          h1 == shift_right(r.heap, dest_iter, r.buf.m_end, write_length)
          h2 == Store(h1, dest_iter, SrcBytes(src))
          b2 == [r.buf EXCEPT !.m_end = PtrAdd(r.buf.m_begin, old_length + write_length)]
      IN  IF grow /\ nc.thrown THEN Res("fail", b, h, nullptr)
          ELSE IF r.outcome # "ok" THEN r
          ELSE Res("ok", b2, h2, PtrAdd(dest_iter, write_length))

\* insert that copies the source over the bytes at dest without shifting
\* them first.
insert_without_shift(b, h, src, dest_begin, a) ==
    IF ~(src.sb <= src.se) THEN Res("fail", b, h, nullptr)
    ELSE IF ~iter_within(b, dest_begin) THEN Res("fail", b, h, nullptr)
    ELSE
      LET old_length == PtrDiff(b.m_end, b.m_begin)
          space_available == PtrDiff(b.m_alloc_end, b.m_end)
          write_length == src.se - src.sb
          write_offset == PtrDiff(dest_begin, b.m_begin)
          grow == write_length > space_available
          nc == next_capacity(b, old_length + write_length)
          r == IF grow /\ ~nc.thrown THEN do_realloc(b, h, nc.val, a)
               ELSE Res("ok", b, h, nullptr)
          dest_iter == PtrAdd(r.buf.m_begin, write_offset)
          h2 == Store(r.heap, dest_iter, SrcBytes(src))
          b2 == [r.buf EXCEPT !.m_end = PtrAdd(r.buf.m_begin, old_length + write_length)]
      IN  IF grow /\ nc.thrown THEN Res("fail", b, h, nullptr)
          ELSE IF r.outcome # "ok" THEN r
          ELSE Res("ok", b2, h2, PtrAdd(dest_iter, write_length))

\* insert that grows as soon as the write fills the free space
\* (write_length >= space_available).
insert_grows_when_full(b, h, src, dest_begin, a) ==
    IF ~(src.sb <= src.se) THEN Res("fail", b, h, nullptr)
    ELSE IF ~iter_within(b, dest_begin) THEN Res("fail", b, h, nullptr)
    ELSE
      LET old_length == PtrDiff(b.m_end, b.m_begin)
          space_available == PtrDiff(b.m_alloc_end, b.m_end)
          write_length == src.se - src.sb
          write_offset == PtrDiff(dest_begin, b.m_begin)
          grow == write_length >= space_available
          nc == next_capacity(b, old_length + write_length + 1)
          r == IF grow /\ ~nc.thrown THEN do_realloc(b, h, nc.val, a)
               ELSE Res("ok", b, h, nullptr)
          dest_iter == PtrAdd(r.buf.m_begin, write_offset)
          h1 == shift_right(r.heap, dest_iter, r.buf.m_alloc_end, write_length)
          h2 == Store(h1, dest_iter, SrcBytes(src))
          b2 == [r.buf EXCEPT !.m_end = PtrAdd(r.buf.m_begin, old_length + write_length)]
      IN  IF grow /\ nc.thrown THEN Res("fail", b, h, nullptr)
          ELSE IF r.outcome # "ok" THEN r
          ELSE Res("ok", b2, h2, PtrAdd(dest_iter, write_length))

\* owning_buffer::insert(src_begin, src_end, dest_begin)
insert(b, h, src, dest_begin, a) ==
    IF ~(src.sb <= src.se) THEN Res("fail", b, h, nullptr)
    ELSE IF ~iter_within(b, dest_begin) THEN Res("fail", b, h, nullptr)
    ELSE
      LET old_length == PtrDiff(b.m_end, b.m_begin)
          space_available == PtrDiff(b.m_alloc_end, b.m_end)
          write_length == src.se - src.sb
          write_offset == PtrDiff(dest_begin, b.m_begin)
          grow == write_length > space_available
          nc == next_capacity(b, old_length + write_length)
          r == IF grow /\ ~nc.thrown THEN do_realloc(b, h, nc.val, a)
               ELSE Res("ok", b, h, nullptr)
          dest_iter == PtrAdd(r.buf.m_begin, write_offset)
          h1 == shift_right(r.heap, dest_iter, r.buf.m_alloc_end, write_length)
          h2 == Store(h1, dest_iter, SrcBytes(src))
          b2 == [r.buf EXCEPT !.m_end = PtrAdd(r.buf.m_begin, old_length + write_length)]
      IN  IF grow /\ nc.thrown THEN Res("fail", b, h, nullptr)
          ELSE IF r.outcome # "ok" THEN r
          ELSE Res("ok", b2, h2, PtrAdd(dest_iter, write_length))

\* erase that shortens the buffer without moving the tail down.
erase_without_move(b, h, first, last) ==
    IF ~PtrLe(first, last) THEN Res("fail", b, h, nullptr)
    ELSE IF ~(iter_within(b, first) /\ iter_within(b, last)) THEN Res("fail", b, h, nullptr)
    ELSE Res("ok",
             [b EXCEPT !.m_end = PtrAdd(b.m_end, -PtrDiff(last, first))],
             h,
             first)

\* owning_buffer::erase(first, last): the range must be ordered and inside
\* [begin, end]; the tail [last, end) moves down to first.
erase(b, h, first, last) ==
    IF ~PtrLe(first, last) THEN Res("fail", b, h, nullptr)
    ELSE IF ~(iter_within(b, first) /\ iter_within(b, last)) THEN Res("fail", b, h, nullptr)
    ELSE Res("ok",
             [b EXCEPT !.m_end = PtrAdd(b.m_end, -PtrDiff(last, first))],
             move_left(h, first, last, b.m_end),
             first)

\* owning_buffer::resize_to_zero / resize_to_capacity
resize_to_zero(b, h) == Res("ok", [b EXCEPT !.m_end = b.m_begin], h, nullptr)
resize_to_capacity(b, h) == Res("ok", [b EXCEPT !.m_end = b.m_alloc_end], h, nullptr)

\* owning_buffer::set_growth
set_growth(b, h, factor) == Res("ok", [b EXCEPT !.m_growth = factor], h, nullptr)

\* Default constructor without the check of alloc.
ctor_default_unchecked(alloc) ==
    Res("ok", EmptyBuffer(alloc), EmptyHeap, nullptr)

\* owning_buffer::owning_buffer(alloc)
ctor_default(alloc) ==
    IF alloc = 0 THEN Res("fail", EmptyBuffer(0), EmptyHeap, nullptr)
    ELSE Res("ok", EmptyBuffer(alloc), EmptyHeap, nullptr)

\* Pre-sizing constructor that asks the allocator also for capacity 0.
ctor_capacity_asks_for_zero(h, cap, alloc, a) ==
    LET allocation == allocate_ptr(h, cap, a)
        h1 == allocate_heap(h, cap, allocation, a)
    IN  IF alloc = 0 THEN Res("fail", EmptyBuffer(0), h, nullptr)
        ELSE IF allocation = nullptr THEN Res("fail", EmptyBuffer(0), h, nullptr)
        ELSE Res("ok",
                 [m_begin |-> allocation, m_end |-> allocation,
                  m_alloc_end |-> PtrAdd(allocation, cap),
                  m_allocator |-> alloc, m_growth |-> k_default_growth_factor],
                 h1, nullptr)

\* owning_buffer::owning_buffer(capacity, alloc)
ctor_capacity(h, cap, alloc, a) ==
    LET allocation == IF cap > 0 THEN allocate_ptr(h, cap, a) ELSE nullptr
        h1 == allocate_heap(h, cap, allocation, a)
    IN  IF alloc = 0 THEN Res("fail", EmptyBuffer(0), h, nullptr)
        ELSE IF cap > 0 /\ allocation = nullptr THEN Res("fail", EmptyBuffer(0), h, nullptr)
        ELSE Res("ok",
                 [m_begin |-> allocation, m_end |-> allocation,
                  m_alloc_end |-> PtrAdd(allocation, cap),
                  m_allocator |-> alloc, m_growth |-> k_default_growth_factor],
                 h1, nullptr)

\* owning_buffer::owning_buffer(length, value, alloc)
ctor_fill(h, len, value, alloc, a) ==
    LET r == ctor_capacity(h, len, alloc, a)
    IN  IF r.outcome # "ok" THEN r
        ELSE Res("ok", [r.buf EXCEPT !.m_end = r.buf.m_alloc_end],
                 Store(r.heap, r.buf.m_begin, [i \in 1..len |-> value]), nullptr)

\* Copy constructor that copies the bytes but never moves m_end to
\* m_alloc_end.
ctor_copy_keeps_end(h, cp, alloc, a) ==
    LET r == ctor_capacity(h, Len(cp), alloc, a)
    IN  IF r.outcome # "ok" THEN r
        ELSE Res("ok", r.buf, Store(r.heap, r.buf.m_begin, cp), nullptr)

\* owning_buffer::owning_buffer(weak_buffer copy, alloc); copy views the
\* caller's bytes cp.
ctor_copy(h, cp, alloc, a) ==
    LET r == ctor_capacity(h, Len(cp), alloc, a)
    IN  IF r.outcome # "ok" THEN r
        ELSE Res("ok", [r.buf EXCEPT !.m_end = r.buf.m_alloc_end],
                 Store(r.heap, r.buf.m_begin, cp), nullptr)

\* owning_buffer{ copy, alloc } for a view copy of memory in heap h:
\* copy.length() bytes are read from copy.data().
ctor_copy_view(h, copy, alloc, a) ==
    ctor_copy(h, Load(h, copy.m_begin, PtrDiff(copy.m_end, copy.m_begin)), alloc, a)

\* owning_buffer::~owning_buffer
dtor(b, h) ==
    IF b.m_alloc_end # nullptr
    THEN IF b.m_allocator = 0 THEN Res("crash", b, h, nullptr)
         ELSE Res("ok", b, deallocate(h, b.m_begin), nullptr)
    ELSE Res("ok", b, h, nullptr)

\* The pointers ~owning_buffer passes to deallocate.
dtor_deallocate(b) ==
    IF b.m_alloc_end # nullptr /\ b.m_allocator # 0 THEN <<b.m_begin>> ELSE <<>>

\* owning_buffer(owning_buffer&& other): [this, other] after the move.
move_ctor(other) ==
    [this |-> other, other |-> EmptyBuffer(0)]

\* Move assignment that leaves the source its allocator and growth policy.
move_assign_keeps_allocator(this, other, same) ==
    IF ~same
    THEN [this |-> other,
          other |-> [other EXCEPT !.m_begin = nullptr, !.m_end = nullptr,
                                  !.m_alloc_end = nullptr]]
    ELSE [this |-> this, other |-> other]

\* owning_buffer::operator=(owning_buffer&& other); same is this == &other.
move_assign(this, other, same) ==
    IF ~same THEN [this |-> other, other |-> EmptyBuffer(0)]
    ELSE [this |-> this, other |-> other]

\* -------------------------------------------------------------- weak_buffer
\* weak_buffer(data, length)
weak_buffer(dat, len) == [m_begin |-> dat, m_end |-> PtrAdd(dat, len)]

\* owning_buffer::at / weak_buffer::at
at(b, h, index) ==
    IF ~(index < length(b)) THEN Res("fail", b, h, 0)
    ELSE Res("ok", b, h, BlockBytes(h, b.m_begin)[b.m_begin.off + index + 1])

\* owning_buffer::view
view(b) == weak_buffer(b.m_begin, PtrDiff(b.m_end, b.m_begin))

\* owning_buffer::subview / weak_buffer::subview
\* offset and size are size_type values and base is the address of the block
\* of m_begin; the constructor of the result computes its m_end as
\* (m_begin + offset) + size once more.
subview(b, h, offset, size, base) ==
    LET sub_begin == PtrAddSize(b.m_begin, offset, base)
        sub_end == PtrAddSize(sub_begin, size, base)
    IN  IF ~PtrLe(sub_begin, b.m_end) THEN Res("fail", b, h, nullptr)
        ELSE IF ~PtrLe(sub_end, b.m_end) THEN Res("fail", b, h, nullptr)
        ELSE Res("ok", b, h, [m_begin |-> sub_begin, m_end |-> sub_end])

\* owning_buffer::first / weak_buffer::first
\* size is a size_type value and base the address of the block of m_begin,
\* as in subview; the constructor of the result computes m_begin + size
\* once more.
first(b, h, size, base) ==
    LET sub_end == PtrAddSize(b.m_begin, size, base)
    IN  IF ~PtrLe(sub_end, b.m_end) THEN Res("fail", b, h, nullptr)
        ELSE Res("ok", b, h, [m_begin |-> b.m_begin, m_end |-> sub_end])

\* owning_buffer::last / weak_buffer::last
\* The result starts at m_begin + my_length - size, computed on addresses,
\* and its constructor adds size to that.
last(b, h, size, base) ==
    LET my_length == PtrDiff(b.m_end, b.m_begin) % SizeModulus
        sub_begin == PtrSubSize(PtrAddSize(b.m_begin, my_length, base), size, base)
    IN  IF ~PtrLe(PtrAddSize(b.m_begin, size, base), b.m_end) THEN Res("fail", b, h, nullptr)
        ELSE Res("ok", b, h, [m_begin |-> sub_begin,
                              m_end |-> PtrAddSize(sub_begin, size, base)])

\* owning_buffer::last_from / weak_buffer::last_from
\* The length of the result is my_length - offset in size_type.
last_from(b, h, offset, base) ==
    LET my_length == PtrDiff(b.m_end, b.m_begin) % SizeModulus
        sub_begin == PtrAddSize(b.m_begin, offset, base)
    IN  IF ~PtrLe(sub_begin, b.m_end) THEN Res("fail", b, h, nullptr)
        ELSE Res("ok", b, h, [m_begin |-> sub_begin,
                              m_end |-> PtrAddSize(sub_begin,
                                                   (my_length - offset) % SizeModulus, base)])

\* weak_buffer::overwrite without the check that the source fits.
weak_overwrite_unchecked(v, h, src, dest_begin) ==
    IF ~(src.sb <= src.se) THEN Res("fail", v, h, nullptr)
    ELSE IF ~iter_within(v, dest_begin) THEN Res("fail", v, h, nullptr)
    ELSE
      LET dest_iter == PtrAdd(v.m_begin, PtrDiff(dest_begin, v.m_begin))
          write_length == src.se - src.sb
      IN  Res("ok", v, Store(h, dest_iter, SrcBytes(src)),
              PtrAdd(dest_iter, write_length))

\* weak_buffer::overwrite(src_begin, src_end, dest_begin)
weak_overwrite(v, h, src, dest_begin) ==
    IF ~(src.sb <= src.se) THEN Res("fail", v, h, nullptr)
    ELSE IF ~iter_within(v, dest_begin) THEN Res("fail", v, h, nullptr)
    ELSE
      LET dest_iter == PtrAdd(v.m_begin, PtrDiff(dest_begin, v.m_begin))
          space_available == PtrDiff(v.m_end, dest_begin)
          write_length == src.se - src.sb
      IN  IF ~(write_length <= space_available) THEN Res("fail", v, h, nullptr)
          ELSE Res("ok", v, Store(h, dest_iter, SrcBytes(src)),
                   PtrAdd(dest_iter, write_length))

\* weak_buffer::insert without the check that the source fits.
weak_insert_unchecked(v, h, src, dest_begin) ==
    IF ~(src.sb <= src.se) THEN Res("fail", v, h, nullptr)
    ELSE IF ~iter_within(v, dest_begin) THEN Res("fail", v, h, nullptr)
    ELSE
      LET dest_iter == PtrAdd(v.m_begin, PtrDiff(dest_begin, v.m_begin))
          write_length == src.se - src.sb
          h1 == shift_right(h, dest_iter, v.m_end, write_length)
      IN  Res("ok", v, Store(h1, dest_iter, SrcBytes(src)),
              PtrAdd(dest_iter, write_length))

\* weak_buffer::insert that copies the source over the bytes at dest
\* without shifting them first.
weak_insert_without_shift(v, h, src, dest_begin) ==
    IF ~(src.sb <= src.se) THEN Res("fail", v, h, nullptr)
    ELSE IF ~iter_within(v, dest_begin) THEN Res("fail", v, h, nullptr)
    ELSE
      LET dest_iter == PtrAdd(v.m_begin, PtrDiff(dest_begin, v.m_begin))
          space_available == PtrDiff(v.m_end, dest_begin)
          write_length == src.se - src.sb
      IN  IF ~(write_length <= space_available) THEN Res("fail", v, h, nullptr)
          ELSE Res("ok", v, Store(h, dest_iter, SrcBytes(src)),
                   PtrAdd(dest_iter, write_length))

\* weak_buffer::insert that cuts the source to the space before the view's
\* end instead of failing, as its doc comment describes.
weak_insert_truncating(v, h, src, dest_begin) ==
    IF ~(src.sb <= src.se) THEN Res("fail", v, h, nullptr)
    ELSE IF ~iter_within(v, dest_begin) THEN Res("fail", v, h, nullptr)
    ELSE
      LET dest_iter == PtrAdd(v.m_begin, PtrDiff(dest_begin, v.m_begin))
          space_available == PtrDiff(v.m_end, dest_begin)
          write_length == Max(0, IF src.se - src.sb <= space_available
                                 THEN src.se - src.sb ELSE space_available)
          h1 == shift_right(h, dest_iter, v.m_end, write_length)
      IN  Res("ok", v, Store(h1, dest_iter, SubSeq(SrcBytes(src), 1, write_length)),
              PtrAdd(dest_iter, write_length))

\* weak_buffer::insert(src_begin, src_end, dest_begin)
weak_insert(v, h, src, dest_begin) ==
    IF ~(src.sb <= src.se) THEN Res("fail", v, h, nullptr)
    ELSE IF ~iter_within(v, dest_begin) THEN Res("fail", v, h, nullptr)
    ELSE
      LET dest_iter == PtrAdd(v.m_begin, PtrDiff(dest_begin, v.m_begin))
          space_available == PtrDiff(v.m_end, dest_begin)
          write_length == src.se - src.sb
          h1 == shift_right(h, dest_iter, v.m_end, write_length)
      IN  IF ~(write_length <= space_available) THEN Res("fail", v, h, nullptr)
          ELSE Res("ok", v, Store(h1, dest_iter, SrcBytes(src)),
                   PtrAdd(dest_iter, write_length))

\* ----------------------------------------------------------- memory streams
\* A memory_input_stream or memory_output_stream: its m_buffer and its
\* m_position.
Stream(b, pos) == [m_buffer |-> b, m_position |-> pos]
SRes(outcome, s, h, ret) == [outcome |-> outcome, strm |-> s, heap |-> h, ret |-> ret]

\* A weak_buffer over memory of the caller: weak_buffer{ p, Len(arr) } with
\* p null or the address of arr.
UserView(null, arr) == [null |-> null, arr |-> arr]

\* DoCalcPosition<seek_origin::current> without the check against length.
DoCalcPosition_past_end(origin, length_, position, offset) ==
    CASE origin = "begin" ->
            IF ~(offset >= 0) \/ ~(offset < length_) THEN [thrown |-> TRUE, val |-> 0]
            ELSE [thrown |-> FALSE, val |-> offset]
      [] origin = "current" ->
            IF ~(position + offset >= 0) THEN [thrown |-> TRUE, val |-> 0]
            ELSE [thrown |-> FALSE, val |-> position + offset]
      [] origin = "end" ->
            IF ~(offset <= 0) \/ ~(offset > -length_) THEN [thrown |-> TRUE, val |-> 0]
            ELSE [thrown |-> FALSE, val |-> length_ + offset]

\* DoCalcPosition<Origin>(length, position, offset): [thrown, val].
DoCalcPosition(origin, length_, position, offset) ==
    CASE origin = "begin" ->
            IF ~(offset >= 0) \/ ~(offset < length_) THEN [thrown |-> TRUE, val |-> 0]
            ELSE [thrown |-> FALSE, val |-> offset]
      [] origin = "current" ->
            LET new_position == position + offset
            IN  IF ~(new_position >= 0) \/ ~(new_position <= length_)
                THEN [thrown |-> TRUE, val |-> 0]
                ELSE [thrown |-> FALSE, val |-> new_position]
      [] origin = "end" ->
            IF ~(offset <= 0) \/ ~(offset > -length_) THEN [thrown |-> TRUE, val |-> 0]
            ELSE [thrown |-> FALSE, val |-> length_ + offset]

\* memory_input_stream / memory_output_stream ::seek_begin, seek_current,
\* seek_end: the position is assigned only if DoCalcPosition returns.
seek(s, h, origin, offset) ==
    LET length_ == length(s.m_buffer)
        p == DoCalcPosition(origin, length_, s.m_position, offset)
    IN  IF p.thrown THEN SRes("fail", s, h, 0)
        ELSE SRes("ok", [s EXCEPT !.m_position = p.val], h, 0)

\* memory_input_stream(source_view, alloc): source_view holds the bytes cp.
\* The buffer is constructed first; if the view is empty the constructor
\* throws and the buffer, which holds no block then, is destroyed.
input_stream_ctor(h, cp, alloc, a) ==
    LET r == ctor_copy(h, cp, alloc, a)
    IN  IF r.outcome # "ok" THEN SRes(r.outcome, Stream(r.buf, 0), r.heap, 0)
        ELSE IF ~(Len(cp) # 0) THEN SRes("fail", Stream(EmptyBuffer(0), 0), dtor(r.buf, r.heap).heap, 0)
        ELSE SRes("ok", Stream(set_growth(r.buf, r.heap, "none").buf, 0), r.heap, 0)

\* memory_input_stream(owning_buffer&& source_buffer): [this, other].
input_stream_ctor_move(source_buffer) ==
    LET m == move_ctor(source_buffer)
    IN  [this |-> Stream(m.this, 0), other |-> m.other]

\* memory_output_stream(alloc)
output_stream_ctor(h, alloc) ==
    LET r == ctor_default(alloc)
    IN  IF r.outcome # "ok" THEN SRes(r.outcome, Stream(r.buf, 0), h, 0)
        ELSE SRes("ok", Stream(set_growth(r.buf, h, k_default_growth_factor).buf, 0), h, 0)

\* memory_output_stream(capacity, growth, alloc); the constructor without
\* growth passes k_default_growth_factor.
output_stream_ctor_capacity(h, cap, growth, alloc, a) ==
    LET r == ctor_capacity(h, cap, alloc, a)
    IN  IF r.outcome # "ok" THEN SRes(r.outcome, Stream(r.buf, 0), r.heap, 0)
        ELSE IF ~(cap # 0) THEN SRes("fail", Stream(EmptyBuffer(0), 0), dtor(r.buf, r.heap).heap, 0)
        ELSE SRes("ok", Stream(set_growth(r.buf, r.heap, growth).buf, 0), r.heap, 0)

\* The move constructor of a memory stream: m_buffer is default-constructed
\* with the default allocator and then move-assigned: [this, other].
stream_move_ctor(other) ==
    LET m == move_assign(ctor_default(1).buf, other.m_buffer, FALSE)
    IN  [this |-> Stream(m.this, other.m_position), other |-> Stream(m.other, 0)]

\* The move assignment of a memory stream: [this, other].
stream_move_assign(this, other, same) ==
    IF ~same
    THEN LET m == move_assign(this.m_buffer, other.m_buffer, FALSE)
         IN  [this |-> Stream(m.this, other.m_position), other |-> Stream(m.other, 0)]
    ELSE [this |-> this, other |-> other]

\* ~memory_input_stream / ~memory_output_stream: destroys m_buffer.
stream_dtor(s, h) == dtor(s.m_buffer, h)

Minimum(x, y) == IF x <= y THEN x ELSE y

\* read_bytes that copies the bytes but leaves m_position where it was.
read_bytes_keeps_position(s, h, output) ==
    IF ~(~output.null) THEN [outcome |-> "fail", strm |-> s, heap |-> h, ret |-> 0, out |-> output.arr]
    ELSE IF ~(Len(output.arr) > 0)
    THEN [outcome |-> "fail", strm |-> s, heap |-> h, ret |-> 0, out |-> output.arr]
    ELSE
      LET remaining_length == length(s.m_buffer) - s.m_position
          read_length == Minimum(Len(output.arr), remaining_length)
          got == Load(h, PtrAdd(data(s.m_buffer), s.m_position), read_length)
      IN  [outcome |-> "ok", strm |-> s, heap |-> h, ret |-> read_length,
           out |-> got \o SubSeq(output.arr, read_length + 1, Len(output.arr))]

\* memory_input_stream::read_bytes(output): the result has the stream, the
\* count returned and out, the caller's array after the call.
read_bytes(s, h, output) ==
    IF ~(~output.null) THEN [outcome |-> "fail", strm |-> s, heap |-> h, ret |-> 0, out |-> output.arr]
    ELSE IF ~(Len(output.arr) > 0)
    THEN [outcome |-> "fail", strm |-> s, heap |-> h, ret |-> 0, out |-> output.arr]
    ELSE
      LET remaining_length == length(s.m_buffer) - s.m_position
          read_length == Minimum(Len(output.arr), remaining_length)
          got == Load(h, PtrAdd(data(s.m_buffer), s.m_position), read_length)
      IN  [outcome |-> "ok", strm |-> [s EXCEPT !.m_position = @ + read_length],
           heap |-> h, ret |-> read_length,
           out |-> got \o SubSeq(output.arr, read_length + 1, Len(output.arr))]

\* input_stream::read_byte: the byte read, or -1.
read_byte(s, h) ==
    LET r == read_bytes(s, h, UserView(FALSE, <<0>>))
    IN  IF r.ret # 1 THEN [r EXCEPT !.ret = -1] ELSE [r EXCEPT !.ret = r.out[1]]

\* write_bytes that passes the whole input to the buffer under every policy.
write_bytes_unclamped(s, h, input, a) ==
    IF ~(~input.null) THEN SRes("fail", s, h, 0)
    ELSE IF ~(Len(input.arr) > 0) THEN SRes("fail", s, h, 0)
    ELSE
      LET b == s.m_buffer
          r == overwrite(b, h, Src(input.arr, 0, Len(input.arr)), PtrAdd(b.m_begin, s.m_position), a)
      IN  IF r.outcome # "ok" THEN SRes(r.outcome, Stream(r.buf, s.m_position), r.heap, 0)
          ELSE SRes("ok", Stream(r.buf, s.m_position + Len(input.arr)), r.heap, Len(input.arr))

\* memory_output_stream::write_bytes(input); a is the allocator's answer if
\* the buffer has to grow.
write_bytes(s, h, input, a) ==
    IF ~(~input.null) THEN SRes("fail", s, h, 0)
    ELSE IF ~(Len(input.arr) > 0) THEN SRes("fail", s, h, 0)
    ELSE
      LET b == s.m_buffer
      IN  IF b.m_growth = "none"
          THEN LET remaining_capacity == capacity(b) - s.m_position
                   write_length == Minimum(Len(input.arr), remaining_capacity)
                   r == overwrite(b, h, Src(input.arr, 0, write_length),
                                  PtrAdd(b.m_begin, s.m_position), a)
               IN  IF r.outcome # "ok" THEN SRes(r.outcome, Stream(r.buf, s.m_position), r.heap, 0)
                   ELSE SRes("ok", Stream(r.buf, s.m_position + write_length), r.heap,
                             write_length)
          ELSE LET r == overwrite(b, h, Src(input.arr, 0, Len(input.arr)),
                                  PtrAdd(b.m_begin, s.m_position), a)
               IN  IF r.outcome # "ok" THEN SRes(r.outcome, Stream(r.buf, s.m_position), r.heap, 0)
                   ELSE SRes("ok", Stream(r.buf, s.m_position + Len(input.arr)), r.heap,
                             Len(input.arr))

\* ------------------------------------------------------------------ numerics
\* std::endian::little and std::endian::big; the native order is one of them.
Endian == {"little", "big"}
\* sizeof(T) of the regular numeric types.
NumericSizes == {1, 2, 4, 8}
\* A value of size bytes is a number below ByteValues^size, where a byte
\* has ByteValues values.
ByteValues == Cardinality(Byte)
NumericValues(size) == 0..(ByteValues^size - 1)

Reverse(seq) == [i \in 1..Len(seq) |-> seq[Len(seq) + 1 - i]]

\* The bytes of value v in memory, lowest address first, on a build whose
\* native order is native, and the value that such bytes hold.
ObjectBytes(v, size, native) ==
    LET little == [i \in 1..size |-> (v \div ByteValues^(i - 1)) % ByteValues]
    IN  IF native = "little" THEN little ELSE Reverse(little)
RECURSIVE LittleValue(_)
LittleValue(bytes) ==
    IF Len(bytes) = 0 THEN 0 ELSE bytes[1] + ByteValues * LittleValue(Tail(bytes))
ObjectValue(bytes, native) ==
    IF native = "little" THEN LittleValue(bytes) ELSE LittleValue(Reverse(bytes))

\* bswap that returns its argument for every size.
bswap_identity(v, size) == v

\* bswap(v): the value whose bytes are those of v in reverse order
\* (__builtin_bswap16 / 32 / 64); v itself for size 1.
bswap(v, size) ==
    IF size = 1 THEN v
    ELSE LittleValue(Reverse(ObjectBytes(v, size, "little")))

\* output_stream::write_numeric<T, E>(value) with sizeof(T) = size on a
\* build of native order native: ret is the bool returned.
write_numeric(s, h, size, value, E, native, a) ==
    LET swapped == IF E # native THEN bswap(value, size) ELSE value
        buffer == UserView(FALSE, ObjectBytes(swapped, size, native))
        w == write_bytes(s, h, buffer, a)
    IN  IF w.outcome # "ok" THEN [w EXCEPT !.ret = FALSE]
        ELSE [w EXCEPT !.ret = (w.ret = size)]

\* input_stream::read_numeric<T, E>(out) with out holding out0 before the
\* call: ret is the bool returned and out the value of out afterwards.
read_numeric(s, h, size, out0, E, native) ==
    LET view_ == UserView(FALSE, ObjectBytes(out0, size, native))
        r == read_bytes(s, h, view_)
        stored == ObjectValue(r.out, native)
    IN  IF r.outcome # "ok" THEN [r EXCEPT !.ret = FALSE, !.out = out0]
        ELSE IF r.ret # size THEN [r EXCEPT !.ret = FALSE, !.out = stored]
        ELSE [r EXCEPT !.ret = TRUE,
                       !.out = IF E # native THEN bswap(stored, size) ELSE stored]

\* =================================================================== state
VARIABLES
    alive,      \* alive[x]: object x is constructed and not yet destroyed
    bufs,       \* bufs[x]: the five members of owning_buffer x
    heap,       \* the allocator's blocks
    leaked,     \* a block was lost: no object can return it to the allocator
    hist,       \* hist[x]: what has happened to x since its construction
    call,       \* the most recent call and how it ended
    streams,    \* streams[x]: the memory stream that has bufs[x] as m_buffer
    loop        \* the loop of next_capacity under way

vars == <<alive, bufs, heap, leaked, hist, call, streams, loop>>

NoHist == [appends |-> FALSE, base |-> 0, hwm |-> 0]
Call(op, x, outcome, grew) ==
    [op |-> op, obj |-> x, outcome |-> outcome, grew |-> grew]

\* No stream is built on x; no call of next_capacity is under way.
NoStream == [kind |-> "none", m_position |-> 0]
NoLoop == [pc |-> "idle", capacity |-> 0, over |-> 0, next |-> 0, odd |-> FALSE]

Init ==
    /\ alive = [x \in Obj |-> FALSE]
    /\ bufs = [x \in Obj |-> EmptyBuffer(0)]
    /\ heap = EmptyHeap
    /\ leaked = FALSE
    /\ hist = [x \in Obj |-> NoHist]
    /\ call = Call("init", 1, "ok", FALSE)
    /\ streams = [x \in Obj |-> NoStream]
    /\ loop = NoLoop

Running == call.outcome # "crash"

\* The outstanding blocks no object points to any more.  Such a block is
\* lost for good: nothing can read it or return it, and its address never
\* shows up again, so the heap forgets it and leaked remembers the loss.
Lost(h, bs) == {k \in Blocks : h[k].st # "free" /\ \A x \in Obj : bs[x].m_begin.blk # k}
Forget(h, bs) == [k \in Blocks |-> IF k \in Lost(h, bs) THEN FreeBlock ELSE h[k]]

\* ------------------------------------------------- construction, destruction
Constructed(x, op, r) ==
    /\ alive' = [alive EXCEPT ![x] = (r.outcome = "ok")]
    /\ bufs' = [bufs EXCEPT ![x] = r.buf]
    /\ heap' = r.heap
    /\ UNCHANGED leaked
    /\ hist' = [hist EXCEPT ![x] =
                  IF r.outcome = "ok"
                  THEN [appends |-> TRUE, base |-> capacity(r.buf), hwm |-> 0]
                  ELSE NoHist]
    /\ call' = Call(op, x, r.outcome, FALSE)
    /\ UNCHANGED <<streams, loop>>

ConstructDefault(x, alloc) ==
    /\ Running /\ ~alive[x]
    /\ Constructed(x, "ctor_default", [ctor_default(alloc) EXCEPT !.heap = heap])

ConstructCapacity(x, cap, alloc, a) ==
    /\ Running /\ ~alive[x]
    /\ Constructed(x, "ctor_capacity", ctor_capacity(heap, cap, alloc, a))

ConstructFill(x, len, value, alloc, a) ==
    /\ Running /\ ~alive[x]
    /\ Constructed(x, "ctor_fill", ctor_fill(heap, len, value, alloc, a))

ConstructCopy(x, cp, alloc, a) ==
    /\ Running /\ ~alive[x]
    /\ Constructed(x, "ctor_copy", ctor_copy(heap, cp, alloc, a))

Destroy(x) ==
    /\ Running /\ alive[x]
    /\ LET r == dtor(bufs[x], heap)
       IN  /\ alive' = [alive EXCEPT ![x] = FALSE]
           /\ bufs' = [bufs EXCEPT ![x] = EmptyBuffer(0)]
           /\ heap' = r.heap
           /\ UNCHANGED leaked
           /\ hist' = [hist EXCEPT ![x] = NoHist]
           /\ call' = Call("dtor", x, r.outcome, FALSE)
           /\ UNCHANGED <<streams, loop>>

\* The other party of a move is a temporary owning_buffer whose whole life
\* lies inside the statement: Temporaries(h) are the results of constructing
\* one in heap h, and one that has been moved from before.
Temporaries(h) ==
    {r \in {[ctor_default(1) EXCEPT !.heap = h], Res("ok", move_ctor(EmptyBuffer(1)).other, h, nullptr)}
            \cup {ctor_capacity(h, 1, 1, a) : a \in AllocResponses(MaxCap)}
            \cup {ctor_copy(h, <<0, 1>>, 1, a) : a \in AllocResponses(MaxCap)} :
        r.outcome = "ok"}

Moved(x, op, b, h, outcome) ==
    /\ alive' = [alive EXCEPT ![x] = TRUE]
    /\ bufs' = [bufs EXCEPT ![x] = b]
    /\ heap' = Forget(h, [bufs EXCEPT ![x] = b])
    /\ leaked' = (leaked \/ Lost(h, [bufs EXCEPT ![x] = b]) # {})
    /\ hist' = [hist EXCEPT ![x] = NoHist]
    /\ call' = Call(op, x, outcome, FALSE)
    /\ UNCHANGED <<streams, loop>>

\* owning_buffer x{ std::move(tmp) };  then ~tmp
MoveConstruct(x, tmp) ==
    /\ Running /\ ~alive[x]
    /\ LET m == move_ctor(tmp.buf)
           d == dtor(m.other, tmp.heap)
       IN  Moved(x, "move_ctor", m.this, d.heap, d.outcome)

\* x = std::move(tmp);  then ~tmp
MoveAssign(x, tmp) ==
    /\ Running /\ alive[x]
    /\ LET m == move_assign(bufs[x], tmp.buf, FALSE)
           d == dtor(m.other, tmp.heap)
       IN  Moved(x, "move_assign", m.this, d.heap, d.outcome)

\* owning_buffer tmp{ std::move(x) };  then ~tmp
MoveFrom(x) ==
    /\ Running /\ alive[x]
    /\ LET m == move_ctor(bufs[x])
           d == dtor(m.this, heap)
       IN  Moved(x, "moved_from", m.other, d.heap, d.outcome)

\* tmp = std::move(x);  then ~tmp
MoveAssignFrom(x, tmp) ==
    /\ Running /\ alive[x]
    /\ LET m == move_assign(tmp.buf, bufs[x], FALSE)
           d == dtor(m.this, tmp.heap)
       IN  Moved(x, "moved_from", m.other, d.heap, d.outcome)

\* x = std::move(x)
MoveAssignSelf(x) ==
    /\ Running /\ alive[x]
    /\ LET m == move_assign(bufs[x], bufs[x], TRUE)
       IN  Moved(x, "move_assign", m.this, heap, "ok")

\* ------------------------------------------------------ calls on one object
\* The state after a member function of x has ended with result r.
\* An append is a successful overwrite or insert at end().
Called(x, op, r, append) ==
    /\ bufs' = [bufs EXCEPT ![x] = r.buf]
    /\ heap' = r.heap
    /\ hist' = [hist EXCEPT ![x] =
                  IF r.outcome # "ok" THEN @
                  ELSE IF append /\ @.appends
                  THEN [@ EXCEPT !.hwm = Max(@, length(r.buf))]
                  ELSE NoHist]
    /\ call' = Call(op, x, r.outcome,
                    r.buf.m_begin # bufs[x].m_begin \/ capacity(r.buf) # capacity(bufs[x]))
    /\ UNCHANGED <<alive, leaked, streams, loop>>

\* The allocator is only asked when the call has to grow, and then the call
\* fails if the answer is the null block: the other answers are enumerated
\* for the calls that fail under the null block and return under the answer.
Answers(r0, room) == IF r0.outcome = "fail" THEN AllocResponses(room) ELSE {NoBlock}
Answered(a, r) == a = NoBlock \/ r.outcome = "ok"

Overwrite(x, src, o, a) ==
    /\ Running /\ alive[x]
    /\ \E r \in {overwrite(bufs[x], heap, src, PtrAdd(bufs[x].m_begin, o), a)} :
           Answered(a, r) /\ Called(x, "overwrite", r, o = length(bufs[x]))

Insert(x, src, o, a) ==
    /\ Running /\ alive[x]
    /\ \E r \in {insert(bufs[x], heap, src, PtrAdd(bufs[x].m_begin, o), a)} :
           Answered(a, r) /\ Called(x, "insert", r, o = length(bufs[x]))

Erase(x, f, l) ==
    /\ Running /\ alive[x]
    /\ \E r \in {erase(bufs[x], heap, PtrAdd(bufs[x].m_begin, f), PtrAdd(bufs[x].m_begin, l))} :
           Called(x, "erase", r, FALSE)

\* it = x.insert(src_begin, src_end, x.begin() + p);
\* x.erase(it - k, it)  with k = src_end - src_begin:
\* the erase runs only if the insert returned.
insert_erase(b, h, src, p, a) ==
    LET r == insert(b, h, src, PtrAdd(b.m_begin, p), a)
        k == src.se - src.sb
    IN  IF r.outcome # "ok" THEN r
        ELSE erase(r.buf, r.heap, PtrAdd(r.ret, -k), r.ret)

InsertErase(x, src, p, a) ==
    /\ Running /\ alive[x]
    /\ \E r \in {insert_erase(bufs[x], heap, src, p, a)} :
           Answered(a, r) /\ Called(x, "insert_erase", r, FALSE)

ResizeToZero(x) ==
    /\ Running /\ alive[x]
    /\ Called(x, "resize_to_zero", resize_to_zero(bufs[x], heap), FALSE)

ResizeToCapacity(x) ==
    /\ Running /\ alive[x]
    /\ Called(x, "resize_to_capacity", resize_to_capacity(bufs[x], heap), FALSE)

SetGrowth(x, factor) ==
    /\ Running /\ alive[x]
    /\ Called(x, "set_growth", set_growth(bufs[x], heap, factor), FALSE)

\* at: a const member function that returns a byte.
Observe(x, op, r) ==
    /\ Running /\ alive[x]
    /\ bufs' = [bufs EXCEPT ![x] = r.buf]
    /\ heap' = r.heap
    /\ call' = Call("read", x, r.outcome, FALSE)
    /\ UNCHANGED <<alive, leaked, hist, streams, loop>>

At(x, i) == Observe(x, "at", at(bufs[x], heap, i))

\* View v is a part of [begin, end] of b.
Within(b, v) ==
    /\ PtrLe(b.m_begin, v.m_begin)
    /\ PtrLe(v.m_begin, v.m_end)
    /\ PtrLe(v.m_end, b.m_end)

\* The state after x.subview, x.first, x.last or x.last_from has ended with
\* result r.  grew records that the view returned is not a part of
\* [begin, end] of x.
Derived(x, op, r) ==
    /\ Running /\ alive[x]
    /\ call' = Call(op, x, r.outcome, r.outcome = "ok" /\ ~Within(bufs[x], r.ret))
    /\ UNCHANGED <<alive, bufs, heap, leaked, hist, streams, loop>>

\* The calls with the block of x at address base.
Subview(x, offset, size, base) ==
    Derived(x, "subview", subview(bufs[x], heap, offset, size, base))
First(x, size, base) == Derived(x, "first", first(bufs[x], heap, size, base))
Last(x, size, base) == Derived(x, "last", last(bufs[x], heap, size, base))
LastFrom(x, offset, base) == Derived(x, "last_from", last_from(bufs[x], heap, offset, base))

\* x.subview(offset, size).overwrite(...) / .insert(...): a write through a
\* view of the buffer's used bytes.
ViewCalled(x, op, r) ==
    /\ heap' = r.heap
    /\ hist' = [hist EXCEPT ![x] = IF r.outcome = "ok" THEN NoHist ELSE @]
    /\ call' = Call(op, x, r.outcome, FALSE)
    /\ UNCHANGED <<alive, bufs, leaked, streams, loop>>

ViewOverwrite(x, v, src, o) ==
    /\ Running /\ alive[x]
    /\ ViewCalled(x, "weak_overwrite",
                  weak_overwrite(v, heap, src, PtrAdd(v.m_begin, o)))

ViewInsert(x, v, src, o) ==
    /\ Running /\ alive[x]
    /\ ViewCalled(x, "weak_insert",
                  weak_insert(v, heap, src, PtrAdd(v.m_begin, o)))

\* ------------------------------------------------- calls on a memory stream
\* The record of a call on the stream of x that returned ret.
StreamCall(op, x, outcome, ret) ==
    [op |-> op, obj |-> x, outcome |-> outcome, grew |-> FALSE, ret |-> ret]

StreamOf(x) == Stream(bufs[x], streams[x].m_position)
IsStream(x, kinds) == Running /\ alive[x] /\ streams[x].kind \in kinds

\* The state after a call has left the stream of x as s, of the given kind,
\* in heap h.  A block no object points to any more is lost.
StreamState(x, kind, s, h, exists) ==
    /\ alive' = [alive EXCEPT ![x] = exists]
    /\ bufs' = [bufs EXCEPT ![x] = IF exists THEN s.m_buffer ELSE EmptyBuffer(0)]
    /\ streams' = [streams EXCEPT ![x] =
                      IF exists THEN [kind |-> kind, m_position |-> s.m_position]
                      ELSE NoStream]
    /\ heap' = Forget(h, bufs')
    /\ leaked' = (leaked \/ Lost(h, bufs') # {})
    /\ hist' = [hist EXCEPT ![x] = NoHist]
    /\ UNCHANGED loop

Streamed(x, op, kind, s, h, outcome, ret, exists) ==
    /\ StreamState(x, kind, s, h, exists)
    /\ call' = StreamCall(op, x, outcome, ret)

\* memory_input_stream x{ weak_buffer over cp, alloc };
CreateInput(x, cp, alloc, a) ==
    /\ Running /\ ~alive[x]
    /\ LET r == input_stream_ctor(heap, cp, alloc, a)
       IN  Streamed(x, "input_ctor", "input", r.strm, r.heap, r.outcome, 0, r.outcome = "ok")

\* memory_input_stream x{ std::move(tmp) } with tmp an owning_buffer;  ~tmp
CreateInputFromBuffer(x, tmp) ==
    /\ Running /\ ~alive[x]
    /\ LET m == input_stream_ctor_move(tmp.buf)
           d == dtor(m.other, tmp.heap)
       IN  Streamed(x, "input_ctor_move", "input", m.this, d.heap, d.outcome, 0, TRUE)

\* memory_output_stream x{ alloc };
CreateOutput(x, alloc) ==
    /\ Running /\ ~alive[x]
    /\ LET r == output_stream_ctor(heap, alloc)
       IN  Streamed(x, "output_ctor", "output", r.strm, r.heap, r.outcome, 0, r.outcome = "ok")

\* memory_output_stream x{ cap, growth, alloc };
CreateOutputCapacity(x, cap, growth, alloc, a) ==
    /\ Running /\ ~alive[x]
    /\ LET r == output_stream_ctor_capacity(heap, cap, growth, alloc, a)
       IN  Streamed(x, "output_ctor_capacity", "output", r.strm, r.heap, r.outcome, 0,
                    r.outcome = "ok")

\* The end of the lifetime of the stream x.
StreamDestroy(x) ==
    /\ IsStream(x, {"input", "output"})
    /\ LET r == stream_dtor(StreamOf(x), heap)
       IN  Streamed(x, "stream_dtor", "none", StreamOf(x), r.heap, r.outcome, 0, FALSE)

\* The other party of a stream's move is a temporary stream of the same
\* class whose whole life lies inside the statement: one built in heap h
\* without a block, one built with a block, and one moved from before.
TempStreams(h, kind) ==
    {r \in {IF kind = "output" THEN output_stream_ctor(h, 1)
                               ELSE SRes("ok", input_stream_ctor_move(ctor_default(1).buf).this, h, 0),
            SRes("ok", stream_move_ctor(Stream(EmptyBuffer(1), 0)).other, h, 0)}
            \cup {IF kind = "output" THEN output_stream_ctor_capacity(h, 1, "mult2x", 1, a)
                                     ELSE input_stream_ctor(h, <<0, 1>>, 1, a) :
                     a \in AllocResponses(MaxCap)} :
        r.outcome = "ok"}

\* Stream x{ std::move(tmp) };  ~tmp
StreamMoveConstruct(x, kind, tmp) ==
    /\ Running /\ ~alive[x]
    /\ LET m == stream_move_ctor(tmp.strm)
           d == stream_dtor(m.other, tmp.heap)
       IN  Streamed(x, "stream_move_ctor", kind, m.this, d.heap, d.outcome, 0, TRUE)

\* x = std::move(tmp);  ~tmp
StreamMoveAssign(x, tmp) ==
    /\ IsStream(x, {"input", "output"})
    /\ LET m == stream_move_assign(StreamOf(x), tmp.strm, FALSE)
           d == stream_dtor(m.other, tmp.heap)
       IN  Streamed(x, "stream_move_assign", streams[x].kind, m.this, d.heap, d.outcome, 0, TRUE)

\* Stream tmp{ std::move(x) };  ~tmp
StreamMoveFrom(x) ==
    /\ IsStream(x, {"input", "output"})
    /\ LET m == stream_move_ctor(StreamOf(x))
           d == stream_dtor(m.this, heap)
       IN  Streamed(x, "stream_moved_from", streams[x].kind, m.other, d.heap, d.outcome, 0, TRUE)

\* x = std::move(x)
StreamMoveAssignSelf(x) ==
    /\ IsStream(x, {"input", "output"})
    /\ LET m == stream_move_assign(StreamOf(x), StreamOf(x), TRUE)
       IN  Streamed(x, "stream_move_assign", streams[x].kind, m.this, heap, "ok", 0, TRUE)

\* The position a seek names, and the record of a seek: its origin and
\* whether the position it named is one of [0, length].
SeekTarget(s, origin, offset) ==
    CASE origin = "begin" -> offset
      [] origin = "current" -> s.m_position + offset
      [] origin = "end" -> length(s.m_buffer) + offset
SeekCall(origin, x, outcome, inside) ==
    [op |-> "seek", obj |-> x, outcome |-> outcome, grew |-> FALSE, ret |-> 0,
     origin |-> origin, inside |-> inside]

\* x.seek_begin(offset), x.seek_current(offset), x.seek_end(offset)
Seek(x, origin, offset) ==
    /\ IsStream(x, {"input", "output"})
    /\ LET r == seek(StreamOf(x), heap, origin, offset)
       IN  /\ StreamState(x, streams[x].kind, r.strm, r.heap, TRUE)
           /\ call' = SeekCall(origin, x, r.outcome,
                               SeekTarget(StreamOf(x), origin, offset) \in 0..length(bufs[x]))

\* x.read_bytes(output)
ReadBytes(x, output) ==
    /\ IsStream(x, {"input"})
    /\ LET r == read_bytes(StreamOf(x), heap, output)
       IN  Streamed(x, "read_bytes", "input", r.strm, r.heap, r.outcome, r.ret, TRUE)

\* x.read_byte()
ReadByte(x) ==
    /\ IsStream(x, {"input"})
    /\ LET r == read_byte(StreamOf(x), heap)
       IN  Streamed(x, "read_byte", "input", r.strm, r.heap, r.outcome, r.ret, TRUE)

\* x.write_bytes(input)
WriteBytes(x, input, a) ==
    /\ IsStream(x, {"output"})
    /\ \E r \in {write_bytes(StreamOf(x), heap, input, a)} :
          /\ Answered(a, r)
          /\ Streamed(x, "write_bytes", "output", r.strm, r.heap, r.outcome, r.ret, TRUE)

\* The record of a numeric transfer: the bool returned and the value left
\* in out (0 for a write).
NumericCall(op, x, outcome, ret, value) ==
    [op |-> op, obj |-> x, outcome |-> outcome, grew |-> FALSE, ret |-> ret,
     value |-> value]

\* x.write_numeric<T, E>(value)
WriteNumeric(x, size, value, E, native, a) ==
    /\ IsStream(x, {"output"})
    /\ \E r \in {write_numeric(StreamOf(x), heap, size, value, E, native, a)} :
          /\ Answered(a, r)
          /\ StreamState(x, "output", r.strm, r.heap, TRUE)
          /\ call' = NumericCall("write_numeric", x, r.outcome, r.ret, 0)

\* x.read_numeric<T, E>(out) with out zero before the call
ReadNumeric(x, size, E, native) ==
    /\ IsStream(x, {"input"})
    /\ LET r == read_numeric(StreamOf(x), heap, size, 0, E, native)
       IN  /\ StreamState(x, "input", r.strm, r.heap, TRUE)
           /\ call' = NumericCall("read_numeric", x, r.outcome, r.ret, r.out)

\* memory_input_stream in{ x.view(), alloc };  ~x;  in takes the place of x:
\* what x has written is read back.
reopen(s, h, a) ==
    LET r == input_stream_ctor(h, Contents(h, s.m_buffer), 1, a)
    IN  IF r.outcome # "ok" THEN r
        ELSE SRes(stream_dtor(s, r.heap).outcome, r.strm, stream_dtor(s, r.heap).heap, 0)

Reopen(x, a) ==
    /\ IsStream(x, {"output"})
    /\ LET r == reopen(StreamOf(x), heap, a)
       IN  IF r.outcome = "fail"
           THEN Streamed(x, "reopen", "output", StreamOf(x), heap, "fail", 0, TRUE)
           ELSE Streamed(x, "reopen", "input", r.strm, r.heap, r.outcome, 0, TRUE)

\* ------------------------------------------- next_capacity, step by step
\* owning_buffer::next_capacity(over) under mult2x on a buffer of the given
\* capacity, with size_type SizeBits wide:
\*     size_type next = std::max<size_type>(1u, capacity());
\*     while (next < over) next *= 2u;
\*     return next;
\* odd tells whether the loop's body has run an odd number of times.
Looped(l) ==
    /\ loop' = l
    /\ UNCHANGED <<alive, bufs, heap, leaked, hist, call, streams>>

GrowBegin(cap, over) ==
    /\ loop.pc = "idle"
    /\ Looped([pc |-> "loop", capacity |-> cap, over |-> over, next |-> Max(1, cap),
               odd |-> FALSE])

GrowDouble ==
    /\ loop.pc = "loop" /\ loop.next < loop.over
    /\ Looped([loop EXCEPT !.next = (@ * 2) % SizeModulus, !.odd = ~@])

GrowReturn ==
    /\ loop.pc = "loop" /\ ~(loop.next < loop.over)
    /\ Looped([loop EXCEPT !.pc = "done"])

\* The caller takes the value returned.
GrowEnd ==
    /\ loop.pc = "done"
    /\ Looped(NoLoop)

\* ------------------------------------------------------------ specification
\* The source ranges a caller passes: every byte sequence of up to MaxSrc
\* bytes as an ordered range, and one misordered range (src_begin > src_end).
Sources == {Src(arr, 0, Len(arr)) : arr \in SeqsUpTo(Byte, MaxSrc)}
              \cup {Src(<<0>>, 1, 0)}
Sizes == 0..(MaxCap + 1)
\* Offsets of the positions a caller passes for x: inside [begin, end], and
\* one below and one above.
Offsets(x) == -1..(length(bufs[x]) + 1)

\* The views of x a caller writes through: x.view() and x.subview(1, n) for
\* the n that fit.
Views(x) ==
    {view(bufs[x])}
        \cup UNION {{subview(bufs[x], heap, 1, n, base).ret : n \in 0..(length(bufs[x]) - 1)} :
                        base \in Bases(heap, bufs[x].m_begin)}

\* Every operation of owning_buffer.
NextOwning ==
    \/ \E x \in Obj, alloc \in {0, 1} : ConstructDefault(x, alloc)
    \/ \E x \in Obj, cap \in Sizes, alloc \in {0, 1}, a \in AllocResponses(MaxCap) :
          ConstructCapacity(x, cap, alloc, a)
    \/ \E x \in Obj, len \in Sizes, value \in Byte, alloc \in {0, 1}, a \in AllocResponses(MaxCap) :
          ConstructFill(x, len, value, alloc, a)
    \/ \E x \in Obj, cp \in SeqsUpTo(Byte, MaxSrc), alloc \in {0, 1}, a \in AllocResponses(MaxCap) :
          ConstructCopy(x, cp, alloc, a)
    \/ \E x \in Obj : Destroy(x)
    \/ \E x \in Obj : \E tmp \in Temporaries(heap) : MoveConstruct(x, tmp)
    \/ \E x \in Obj : \E tmp \in Temporaries(heap) : MoveAssign(x, tmp)
    \/ \E x \in Obj : MoveFrom(x)
    \/ \E x \in Obj : \E tmp \in Temporaries(heap) : MoveAssignFrom(x, tmp)
    \/ \E x \in Obj : MoveAssignSelf(x)
    \/ \E x \in Obj, src \in Sources : \E o \in Offsets(x) :
          \E a \in Answers(overwrite(bufs[x], heap, src, PtrAdd(bufs[x].m_begin, o), NoBlock), MaxCap) :
          Overwrite(x, src, o, a)
    \/ \E x \in Obj, src \in Sources : \E o \in Offsets(x) :
          \E a \in Answers(insert(bufs[x], heap, src, PtrAdd(bufs[x].m_begin, o), NoBlock), MaxCap) :
          Insert(x, src, o, a)
    \/ \E x \in Obj : \E f \in Offsets(x), l \in Offsets(x) : Erase(x, f, l)
    \/ \E x \in Obj, src \in Sources : \E p \in 0..length(bufs[x]) :
          \E a \in Answers(insert_erase(bufs[x], heap, src, p, NoBlock), MaxCap) :
          InsertErase(x, src, p, a)
    \/ \E x \in Obj : ResizeToZero(x)
    \/ \E x \in Obj : ResizeToCapacity(x)
    \/ \E x \in Obj, factor \in Growth : SetGrowth(x, factor)

\* The const member functions and the writes through a view.
NextView ==
    \/ \E x \in Obj : \E i \in 0..(length(bufs[x]) + 1) : At(x, i)
    \/ \E x \in Obj, src \in Sources : \E v \in Views(x) :
          \E o \in -1..(length(v) + 1) : ViewOverwrite(x, v, src, o)
    \/ \E x \in Obj, src \in Sources : \E v \in Views(x) :
          \E o \in -1..(length(v) + 1) : ViewInsert(x, v, src, o)

\* The views derived from a buffer: buffers are constructed, written and
\* destroyed, and subview, first, last and last_from are called with every
\* argument of size_type and the block at every address.
NextPart ==
    \/ \E x \in Obj, cap \in Sizes, alloc \in {0, 1}, a \in AllocResponses(MaxCap) :
          ConstructCapacity(x, cap, alloc, a)
    \/ \E x \in Obj, len \in Sizes, value \in Byte, alloc \in {0, 1}, a \in AllocResponses(MaxCap) :
          ConstructFill(x, len, value, alloc, a)
    \/ \E x \in Obj : Destroy(x)
    \/ \E x \in Obj, src \in Sources : \E o \in Offsets(x) :
          \E a \in Answers(overwrite(bufs[x], heap, src, PtrAdd(bufs[x].m_begin, o), NoBlock), MaxCap) :
          Overwrite(x, src, o, a)
    \/ \E x \in Obj, offset \in size_type, size \in size_type :
          \E base \in Bases(heap, bufs[x].m_begin) : Subview(x, offset, size, base)
    \/ \E x \in Obj, size \in size_type :
          \E base \in Bases(heap, bufs[x].m_begin) : First(x, size, base)
    \/ \E x \in Obj, size \in size_type :
          \E base \in Bases(heap, bufs[x].m_begin) : Last(x, size, base)
    \/ \E x \in Obj, offset \in size_type :
          \E base \in Bases(heap, bufs[x].m_begin) : LastFrom(x, offset, base)

\* Appends alone, under the policy the constructors set (mult2x): the
\* buffer is constructed and then only written at end().  The bytes do not
\* matter here, so they are all 0 and the allocator has room for two
\* doublings of the largest constructed capacity.
AppendRoom == 2 * MaxCap
AppendSources == {Src([i \in 1..n |-> 0], 0, n) : n \in 0..MaxSrc}
AppendResponses == {a \in AllocResponses(AppendRoom) : a.junk = 0}
NextAppend ==
    \/ \E x \in Obj : ConstructDefault(x, 1)
    \/ \E x \in Obj, cap \in 0..MaxCap, a \in AppendResponses :
          ConstructCapacity(x, cap, 1, a)
    \/ \E x \in Obj, len \in 0..MaxCap, a \in AppendResponses :
          ConstructFill(x, len, 0, 1, a)
    \/ \E x \in Obj : Destroy(x)
    \/ \E x \in Obj, src \in AppendSources, a \in AppendResponses :
          Overwrite(x, src, length(bufs[x]), a)
    \/ \E x \in Obj, src \in AppendSources, a \in AppendResponses :
          Insert(x, src, length(bufs[x]), a)

Next == NextOwning

\* The owning buffer under every sequence of its operations.
Spec == Init /\ [][Next]_vars

\* The owning buffer together with the views a caller takes of it.
SpecView == Init /\ [][NextOwning \/ NextView]_vars

\* The owning buffer under construction and appends.
SpecAppend == Init /\ [][NextAppend]_vars

\* The owning buffer and the views derived from it.
SpecPart == Init /\ [][NextPart]_vars

\* The views a caller passes to read_bytes and write_bytes: null or over an
\* array of the caller.
OutputViews == {UserView(null, [i \in 1..n |-> 0]) : null \in BOOLEAN, n \in 0..MaxCap}
InputViews == {UserView(null, arr) : null \in BOOLEAN, arr \in SeqsUpTo(Byte, MaxSrc)}
SeekOrigins == {"begin", "current", "end"}
SeekOffsets == (-(MaxCap + 1))..(MaxCap + 1)
StreamKinds == {"input", "output"}

\* Every operation of memory_input_stream and memory_output_stream.
NextStream ==
    \/ \E x \in Obj, cp \in SeqsUpTo(Byte, MaxSrc), alloc \in {0, 1}, a \in AllocResponses(MaxCap) :
          CreateInput(x, cp, alloc, a)
    \/ \E x \in Obj : \E tmp \in Temporaries(heap) : CreateInputFromBuffer(x, tmp)
    \/ \E x \in Obj, alloc \in {0, 1} : CreateOutput(x, alloc)
    \/ \E x \in Obj, cap \in Sizes, growth \in Growth, alloc \in {0, 1}, a \in AllocResponses(MaxCap) :
          CreateOutputCapacity(x, cap, growth, alloc, a)
    \/ \E x \in Obj : StreamDestroy(x)
    \/ \E x \in Obj, kind \in StreamKinds : \E tmp \in TempStreams(heap, kind) :
          StreamMoveConstruct(x, kind, tmp)
    \/ \E x \in Obj : \E tmp \in TempStreams(heap, streams[x].kind) : StreamMoveAssign(x, tmp)
    \/ \E x \in Obj : StreamMoveFrom(x)
    \/ \E x \in Obj : StreamMoveAssignSelf(x)
    \/ \E x \in Obj, origin \in SeekOrigins, offset \in SeekOffsets : Seek(x, origin, offset)
    \/ \E x \in Obj, output \in OutputViews : ReadBytes(x, output)
    \/ \E x \in Obj : ReadByte(x)
    \/ \E x \in Obj, input \in InputViews :
          \E a \in Answers(write_bytes(StreamOf(x), heap, input, NoBlock), MaxCap) :
          WriteBytes(x, input, a)

SpecStream == Init /\ [][NextStream]_vars

\* The numeric transfers.  The streams are of fixed capacity, in zeroed
\* memory with room for the largest numeric type; the value written is,
\* for each size, one whose bytes tell the two orders apart.
NumericRoom == CHOOSE n \in NumericSizes : \A k \in NumericSizes : k <= n
NumericResponses == {a \in AllocResponses(NumericRoom) : a.junk = 0}
NumericProbe(size) == ByteValues^size - (ByteValues^size) \div 4 - 1
NextNumeric ==
    \/ \E x \in Obj, cap \in NumericSizes, a \in NumericResponses :
          CreateOutputCapacity(x, cap, "none", 1, a)
    \/ \E x \in Obj, size \in NumericSizes, E \in Endian, native \in Endian :
          WriteNumeric(x, size, NumericProbe(size), E, native, NoBlock)
    \/ \E x \in Obj, a \in NumericResponses : Reopen(x, a)
    \/ \E x \in Obj, size \in NumericSizes, E \in Endian, native \in Endian :
          ReadNumeric(x, size, E, native)
    \/ \E x \in Obj : StreamDestroy(x)

SpecNumeric == Init /\ [][NextNumeric]_vars

\* The calls of next_capacity under mult2x, for every capacity and every
\* request of size_type.  The loop is sequential code: a step that can be
\* taken is taken.
NextGrow ==
    \/ \E cap \in size_type, over \in size_type : GrowBegin(cap, over)
    \/ GrowDouble
    \/ GrowReturn
    \/ GrowEnd

SpecGrow ==
    /\ Init /\ [][NextGrow]_vars
    /\ WF_vars(GrowDouble) /\ WF_vars(GrowReturn)

\* =============================================================== properties
\* The ordered source ranges and the allocator's answers a call can meet.
OrderedSources == {src \in Sources : src.sb <= src.se}
Responses == AllocResponses(MaxCap)

\* C1: in every reachable state, after any sequence of constructions,
\* overwrite, insert, erase, resize_to_zero, resize_to_capacity, set_growth
\* and moves, failed calls included, begin <= end <= alloc_end holds for
\* every owning buffer, i.e. 0 <= length <= capacity.
C1_PointersOrdered ==
    \A x \in Obj :
        /\ PtrLe(bufs[x].m_begin, bufs[x].m_end)
        /\ PtrLe(bufs[x].m_end, bufs[x].m_alloc_end)
        /\ 0 <= length(bufs[x])
        /\ length(bufs[x]) <= capacity(bufs[x])

\* A buffer that has just grown in an overwrite or insert and holds bytes.
C1_Witness ==
    /\ call.op \in {"overwrite", "insert"}
    /\ call.outcome = "ok" /\ call.grew
    /\ alive[call.obj] /\ length(bufs[call.obj]) > 0

\* C2: under tight or mult2x, an overwrite of an ordered source of n bytes
\* at offset o, 0 <= o <= L, that returns leaves length max(L, o + n), the
\* source in bytes [o, o + n), every other byte of [0, L) as it was (also
\* when the call reallocates), and returns position o + n of the buffer.
C2_OverwriteEffect ==
    \A x \in Obj : alive[x] /\ bufs[x].m_growth \in {"tight", "mult2x"} =>
        \A src \in OrderedSources, o \in 0..length(bufs[x]), a \in Responses :
            LET b == bufs[x]
                L == length(b)
                n == Len(SrcBytes(src))
                old == Contents(heap, b)
                r == overwrite(b, heap, src, PtrAdd(b.m_begin, o), a)
                new == Contents(r.heap, r.buf)
            IN  r.outcome = "ok" =>
                    /\ length(r.buf) = Max(L, o + n)
                    /\ \A i \in 1..Max(L, o + n) :
                          new[i] = IF i > o /\ i <= o + n THEN SrcBytes(src)[i - o]
                                   ELSE old[i]
                    /\ r.ret = PtrAdd(r.buf.m_begin, o + n)

\* An overwrite has reallocated a buffer that held bytes and filled the
\* largest block.
C2_Witness ==
    /\ call.op = "overwrite" /\ call.outcome = "ok" /\ call.grew
    /\ bufs[call.obj].m_growth \in {"tight", "mult2x"}
    /\ length(bufs[call.obj]) = MaxCap

\* C3: under tight or mult2x, an insert of an ordered source of n bytes at
\* offset o, 0 <= o <= L, that returns leaves length L + n and contents
\* old[0, o) ++ source ++ old[o, L), and returns position o + n of the
\* buffer.
C3_InsertEffect ==
    \A x \in Obj : alive[x] /\ bufs[x].m_growth \in {"tight", "mult2x"} =>
        \A src \in OrderedSources, o \in 0..length(bufs[x]), a \in Responses :
            LET b == bufs[x]
                L == length(b)
                n == Len(SrcBytes(src))
                old == Contents(heap, b)
                r == insert(b, heap, src, PtrAdd(b.m_begin, o), a)
            IN  r.outcome = "ok" =>
                    /\ length(r.buf) = L + n
                    /\ Contents(r.heap, r.buf) =
                          SubSeq(old, 1, o) \o SrcBytes(src) \o SubSeq(old, o + 1, L)
                    /\ r.ret = PtrAdd(r.buf.m_begin, o + n)

\* An insert has reallocated a buffer that held bytes and filled the largest
\* block.
C3_Witness ==
    /\ call.op = "insert" /\ call.outcome = "ok" /\ call.grew
    /\ bufs[call.obj].m_growth \in {"tight", "mult2x"}
    /\ length(bufs[call.obj]) = MaxCap

\* C4: erase(first, last) with begin <= first <= last <= end returns, leaves
\* contents old[0, f) ++ old[l, L), length L - (l - f), the capacity and the
\* data pointer as they were, and returns position f; with first == last
\* nothing changes.
C4_EraseEffect ==
    \A x \in Obj : alive[x] =>
        \A f \in 0..length(bufs[x]) : \A l \in f..length(bufs[x]) :
            LET b == bufs[x]
                L == length(b)
                old == Contents(heap, b)
                r == erase(b, heap, PtrAdd(b.m_begin, f), PtrAdd(b.m_begin, l))
            IN  /\ r.outcome = "ok"
                /\ Contents(r.heap, r.buf) = SubSeq(old, 1, f) \o SubSeq(old, l + 1, L)
                /\ length(r.buf) = L - (l - f)
                /\ capacity(r.buf) = capacity(b)
                /\ data(r.buf) = data(b)
                /\ r.ret = PtrAdd(b.m_begin, f)
                /\ (f = l => r.buf = b /\ r.heap = heap)

\* An erase has removed bytes from the middle of a full buffer.
C4_Witness ==
    /\ call.op = "erase" /\ call.outcome = "ok"
    /\ capacity(bufs[call.obj]) = MaxCap
    /\ length(bufs[call.obj]) = MaxCap - 1

\* C5: a failing at, subview, first, last, last_from, overwrite, insert or
\* erase of an owning buffer or of a view - misordered source, position
\* outside [begin, end], view overflow, growth under none, a null block from
\* the allocator - leaves the object's pointers (data pointer, length,
\* capacity), its growth policy and every byte as they were before the call.
C5_FailureLeavesUnchanged ==
    \A x \in Obj : alive[x] =>
        LET b == bufs[x]
            Kept(obj, r) == r.outcome = "fail" => r.buf = obj /\ r.heap = heap
            Around(obj) == -1..(length(obj) + 1)
            Reads(obj) ==
                /\ \A i \in Around(obj) : i >= 0 =>
                      /\ Kept(obj, at(obj, heap, i))
                      /\ \A base \in Bases(heap, obj.m_begin) :
                            /\ Kept(obj, first(obj, heap, i, base))
                            /\ Kept(obj, last(obj, heap, i, base))
                            /\ Kept(obj, last_from(obj, heap, i, base))
                      /\ \A j \in Around(obj), base \in Bases(heap, obj.m_begin) :
                            j >= 0 => Kept(obj, subview(obj, heap, i, j, base))
        IN  /\ Reads(b)
            /\ \A src \in Sources, o \in Around(b), a \in Responses :
                  /\ Kept(b, overwrite(b, heap, src, PtrAdd(b.m_begin, o), a))
                  /\ Kept(b, insert(b, heap, src, PtrAdd(b.m_begin, o), a))
            /\ \A f \in Around(b), l \in Around(b) :
                  Kept(b, erase(b, heap, PtrAdd(b.m_begin, f), PtrAdd(b.m_begin, l)))
            /\ \A v \in Views(x) :
                  /\ Reads(v)
                  /\ \A src \in Sources, o \in Around(v) :
                        /\ Kept(v, weak_overwrite(v, heap, src, PtrAdd(v.m_begin, o)))
                        /\ Kept(v, weak_insert(v, heap, src, PtrAdd(v.m_begin, o)))

\* An overwrite of a full buffer that holds bytes has just failed.
C5_Witness ==
    /\ call.op = "overwrite" /\ call.outcome = "fail"
    /\ alive[call.obj]
    /\ length(bufs[call.obj]) > 0
    /\ length(bufs[call.obj]) = capacity(bufs[call.obj])

\* C6: under none, an overwrite of n bytes at offset o fails exactly when
\* o + n > capacity and an insert of n bytes fails exactly when
\* n > capacity - length; the failing write leaves the buffer unmodified and
\* every write that fits returns without reallocation.
C6_NoneNeverGrows ==
    \A x \in Obj : alive[x] /\ bufs[x].m_growth = "none" =>
        \A src \in OrderedSources, o \in 0..length(bufs[x]), a \in Responses :
            LET b == bufs[x]
                n == Len(SrcBytes(src))
                ow == overwrite(b, heap, src, PtrAdd(b.m_begin, o), a)
                ins == insert(b, heap, src, PtrAdd(b.m_begin, o), a)
                Rejected(r) == r.outcome = "fail" /\ r.buf = b /\ r.heap = heap
                InPlace(r) ==
                    /\ r.outcome = "ok"
                    /\ data(r.buf) = data(b) /\ capacity(r.buf) = capacity(b)
                    /\ \A k \in Blocks : r.heap[k].st = heap[k].st
            IN  /\ IF o + n > capacity(b) THEN Rejected(ow) ELSE InPlace(ow)
                /\ IF n > capacity(b) - length(b) THEN Rejected(ins) ELSE InPlace(ins)

\* An insert into a partly filled buffer under none has just failed.
C6_Witness ==
    /\ call.op = "insert" /\ call.outcome = "fail"
    /\ bufs[call.obj].m_growth = "none"
    /\ 0 < length(bufs[call.obj])
    /\ length(bufs[call.obj]) < capacity(bufs[call.obj])

\* Powers of two, and the smallest base * 2^k (k >= 0) that is >= need, if
\* one exists among the first MaxDoublings.
RECURSIVE Pow2(_)
Pow2(k) == IF k = 0 THEN 1 ELSE 2 * Pow2(k - 1)
MaxDoublings == AppendRoom
IsSmallestDoubling(c, base, need) ==
    \E k \in 0..MaxDoublings :
        /\ c = base * Pow2(k)
        /\ c >= need
        /\ \A j \in 0..(k - 1) : base * Pow2(j) < need

\* C7 as stated: under mult2x, for every post-construction base capacity B,
\* B = 0 included, after any sequence of appends capacity >= length and
\* capacity is the smallest B * 2^k (k >= 0) that is >= the high-water mark
\* of required space.
C7_AsStated ==
    \A x \in Obj : alive[x] /\ hist[x].appends =>
        /\ capacity(bufs[x]) >= length(bufs[x])
        /\ IsSmallestDoubling(capacity(bufs[x]), hist[x].base, hist[x].hwm)

\* C7: under mult2x, after any sequence of appends to a buffer constructed
\* with capacity B, capacity >= length, and capacity is B while the
\* high-water mark of required space is <= B and otherwise the smallest
\* max(1, B) * 2^k (k >= 0) that is >= the high-water mark.
C7_Mult2xCapacity ==
    \A x \in Obj : alive[x] /\ hist[x].appends =>
        /\ bufs[x].m_growth = "mult2x"
        /\ capacity(bufs[x]) >= length(bufs[x])
        /\ IF hist[x].hwm <= hist[x].base
           THEN capacity(bufs[x]) = hist[x].base
           ELSE IsSmallestDoubling(capacity(bufs[x]), Max(1, hist[x].base), hist[x].hwm)

\* Appends have doubled a buffer constructed with capacity 1 twice in one
\* call: the capacity is above the high-water mark.
C7_Witness ==
    /\ alive[1] /\ hist[1].appends
    /\ hist[1].base = 1
    /\ hist[1].hwm = 3
    /\ capacity(bufs[1]) = 4

\* C8: under tight, when an overwrite or insert that needs more than the
\* capacity returns, the capacity is exactly the write's required length:
\* o + n for an overwrite of n bytes at offset o, the old length + n for an
\* insert of n bytes.
C8_TightCapacity ==
    \A x \in Obj : alive[x] /\ bufs[x].m_growth = "tight" =>
        \A src \in OrderedSources, o \in 0..length(bufs[x]), a \in Responses :
            LET b == bufs[x]
                n == Len(SrcBytes(src))
                ow == overwrite(b, heap, src, PtrAdd(b.m_begin, o), a)
                ins == insert(b, heap, src, PtrAdd(b.m_begin, o), a)
            IN  /\ ow.outcome = "ok" /\ o + n > capacity(b) =>
                      capacity(ow.buf) = o + n
                /\ ins.outcome = "ok" /\ length(b) + n > capacity(b) =>
                      capacity(ins.buf) = length(b) + n

\* A write under tight has just grown the buffer to the largest block.
C8_Witness ==
    /\ call.op \in {"overwrite", "insert"} /\ call.outcome = "ok" /\ call.grew
    /\ bufs[call.obj].m_growth = "tight"
    /\ capacity(bufs[call.obj]) = MaxCap

\* C9: erase, resize_to_zero, resize_to_capacity, set_growth and every
\* overwrite or insert that fits in the capacity leave data() and
\* capacity() as they were, and an overwrite or insert that needs more than
\* the capacity and returns ends with a larger capacity and a data pointer
\* different from the one before the call.
C9_GrowthAloneMovesData ==
    \A x \in Obj : alive[x] =>
        LET b == bufs[x]
            Around == -1..(length(b) + 1)
            Same(r) == data(r.buf) = data(b) /\ capacity(r.buf) = capacity(b)
            Moves(r) == data(r.buf) # data(b) /\ capacity(r.buf) > capacity(b)
        IN  /\ \A f \in Around, l \in Around :
                  Same(erase(b, heap, PtrAdd(b.m_begin, f), PtrAdd(b.m_begin, l)))
            /\ Same(resize_to_zero(b, heap))
            /\ Same(resize_to_capacity(b, heap))
            /\ \A factor \in Growth : Same(set_growth(b, heap, factor))
            /\ \A src \in Sources, o \in Around, a \in Responses :
                  LET n == src.se - src.sb
                      ow == overwrite(b, heap, src, PtrAdd(b.m_begin, o), a)
                      ins == insert(b, heap, src, PtrAdd(b.m_begin, o), a)
                  IN  /\ IF ow.outcome = "ok" /\ o + n > capacity(b)
                         THEN Moves(ow) ELSE Same(ow)
                      /\ IF ins.outcome = "ok" /\ length(b) + n > capacity(b)
                         THEN Moves(ins) ELSE Same(ins)

\* A write has just moved the buffer from one block to the other.
C9_Witness ==
    /\ call.op \in {"overwrite", "insert"} /\ call.outcome = "ok" /\ call.grew
    /\ data(bufs[call.obj]).blk = 2
    /\ length(bufs[call.obj]) >= 2

\* C10: for every buffer, every offset p in [0, length] and every source of
\* k bytes, insert(src, src + k, p) that returns, immediately followed by
\* erase(p, p + k), returns with the contents and the length the buffer had
\* before the insert.
C10_InsertEraseRestores ==
    \A x \in Obj : alive[x] =>
        \A src \in OrderedSources, p \in 0..length(bufs[x]), a \in Responses :
            LET b == bufs[x]
                ins == insert(b, heap, src, PtrAdd(b.m_begin, p), a)
                r == insert_erase(b, heap, src, p, a)
            IN  ins.outcome = "ok" =>
                    /\ r.outcome = "ok"
                    /\ length(r.buf) = length(b)
                    /\ Contents(r.heap, r.buf) = Contents(heap, b)

\* A source of two bytes has been inserted into a buffer that held bytes,
\* growing it, and erased again.
C10_Witness ==
    /\ call.op = "insert_erase" /\ call.outcome = "ok" /\ call.grew
    /\ length(bufs[call.obj]) > 0
    /\ capacity(bufs[call.obj]) >= length(bufs[call.obj]) + MaxSrc

\* The empty source ranges [src, src) over the caller's arrays.
EmptySources ==
    UNION {{Src(arr, k, k) : k \in 0..Len(arr)} : arr \in SeqsUpTo(Byte, MaxSrc)}

\* C11: for an owning buffer, under every growth policy, and for a view,
\* overwrite and insert of an empty source range at any dest in
\* [begin, end] return dest and leave length, capacity, data pointer and
\* contents as they were.
C11_EmptySourceChangesNothing ==
    \A x \in Obj : alive[x] =>
        LET b == bufs[x]
            Nothing(obj, r, dest) ==
                r.outcome = "ok" /\ r.buf = obj /\ r.heap = heap /\ r.ret = dest
        IN  /\ \A src \in EmptySources, o \in 0..length(b), a \in Responses :
                  /\ Nothing(b, overwrite(b, heap, src, PtrAdd(b.m_begin, o), a),
                             PtrAdd(b.m_begin, o))
                  /\ Nothing(b, insert(b, heap, src, PtrAdd(b.m_begin, o), a),
                             PtrAdd(b.m_begin, o))
            /\ \A v \in Views(x) : \A src \in EmptySources, o \in 0..length(v) :
                  /\ Nothing(v, weak_overwrite(v, heap, src, PtrAdd(v.m_begin, o)),
                             PtrAdd(v.m_begin, o))
                  /\ Nothing(v, weak_insert(v, heap, src, PtrAdd(v.m_begin, o)),
                             PtrAdd(v.m_begin, o))

\* An insert has returned and left an allocated buffer empty: its source
\* range was empty.
C11_Witness ==
    /\ call.op = "insert" /\ call.outcome = "ok"
    /\ alive[call.obj]
    /\ length(bufs[call.obj]) = 0
    /\ capacity(bufs[call.obj]) = MaxCap

\* A view V of the object's bytes is copied into a second buffer T.  T
\* lives beside the object, so the heap has one more address for it, and
\* the allocator answers T's requests with any of the addresses.
SpareBlock == Cardinality(Blocks) + 1
WithSpare(h) ==
    [k \in Blocks \cup {SpareBlock} |-> IF k \in Blocks THEN h[k] ELSE FreeBlock]
CopyResponses ==
    {NoBlock} \cup {[blk |-> k, junk |-> 1, room |-> MaxCap] : k \in Blocks \cup {SpareBlock}}
\* Every overwrite and insert through T leaves the bytes V views as they
\* are in the heap.
WritesKeep(T, h, V) ==
    \A src \in OrderedSources, o \in 0..length(T), a \in CopyResponses :
        LET bytes == Load(heap, V.m_begin, length(V))
            ow == overwrite(T, h, src, PtrAdd(T.m_begin, o), a)
            ins == insert(T, h, src, PtrAdd(T.m_begin, o), a)
        IN  /\ Load(ow.heap, V.m_begin, length(V)) = bytes
            /\ Load(ins.heap, V.m_begin, length(V)) = bytes

\* C12 as stated: an owning buffer constructed by copying a view V has a
\* view() of V's length with V's bytes, at an address distinct from V's,
\* and later writes through the buffer do not change V's bytes.
C12_AsStated ==
    \A x \in Obj : alive[x] =>
        \A V \in Views(x), a \in CopyResponses :
            LET r == ctor_copy_view(WithSpare(heap), V, 1, a)
                w == view(r.buf)
            IN  r.outcome = "ok" =>
                    /\ length(w) = length(V)
                    /\ Contents(r.heap, w) = Contents(heap, V)
                    /\ data(w) # data(V)
                    /\ WritesKeep(r.buf, r.heap, V)

\* C12: an owning buffer constructed by copying a view V has a view() of
\* V's length with V's bytes; when V is not empty the view lies in a block
\* of its own, distinct from V's, and when V is empty the buffer has no
\* block and null data; later writes through the buffer do not change V's
\* bytes.
C12_CopyRoundTrip ==
    \A x \in Obj : alive[x] =>
        \A V \in Views(x), a \in CopyResponses :
            LET r == ctor_copy_view(WithSpare(heap), V, 1, a)
                w == view(r.buf)
            IN  r.outcome = "ok" =>
                    /\ length(w) = length(V)
                    /\ Contents(r.heap, w) = Contents(heap, V)
                    /\ IF length(V) > 0
                       THEN data(w).blk # 0 /\ data(w).blk # data(V).blk
                       ELSE data(w) = nullptr
                    /\ WritesKeep(r.buf, r.heap, V)

\* The copy constructor has just returned with the two bytes of the
\* caller's array in a block of its own.
C12_Witness ==
    /\ call.op = "ctor_copy" /\ call.outcome = "ok"
    /\ alive[call.obj]
    /\ data(bufs[call.obj]) # nullptr
    /\ Contents(heap, view(bufs[call.obj])) = <<0, 1>>

\* C13: after move construction of T from S, and after move assignment of
\* S into another buffer T, T holds S's former data pointer, length,
\* capacity, allocator and growth policy, and S is in the empty state: null
\* data, length 0, capacity 0, null allocator, default growth policy.
C13_MoveTransfers ==
    \A x \in Obj : alive[x] =>
        LET Others == {t.buf : t \in Temporaries(heap)}
            Holds(T, S) ==
                /\ data(T) = data(S)
                /\ length(T) = length(S)
                /\ capacity(T) = capacity(S)
                /\ T.m_allocator = S.m_allocator
                /\ T.m_growth = S.m_growth
            Empty(S) ==
                /\ data(S) = nullptr /\ S.m_end = nullptr /\ S.m_alloc_end = nullptr
                /\ length(S) = 0 /\ capacity(S) = 0
                /\ S.m_allocator = 0
                /\ S.m_growth = k_default_growth_factor
            Transfers(m, S) == Holds(m.this, S) /\ Empty(m.other)
        IN  /\ Transfers(move_ctor(bufs[x]), bufs[x])
            /\ \A o \in Others :
                  /\ Transfers(move_ctor(o), o)
                  /\ Transfers(move_assign(bufs[x], o, FALSE), o)
                  /\ Transfers(move_assign(o, bufs[x], FALSE), bufs[x])
            /\ (call.op = "moved_from" /\ call.obj = x => Empty(bufs[x]))

\* A buffer has just been move-constructed from a temporary that held two
\* bytes.
C13_Witness ==
    /\ call.op = "move_ctor" /\ call.outcome = "ok"
    /\ alive[call.obj]
    /\ length(bufs[call.obj]) = 2
    /\ bufs[call.obj].m_allocator # 0

\* C14 as stated: in every reachable state the allocator of every owning
\* buffer object is non-null.
C14_AsStated ==
    \A x \in Obj : alive[x] => bufs[x].m_allocator # 0

\* C14: the allocator of an owning buffer is non-null unless the buffer is
\* in the moved-from state: a null allocator comes with null data, length 0
\* and capacity 0, and it appears only in a move - in the source of the
\* move, or in the target when the source had been moved from before; no
\* constructor and no other member function produces it.
C14_NullAllocatorOnlyByMove ==
    [][\A x \in Obj : alive'[x] /\ bufs'[x].m_allocator = 0 =>
          /\ data(bufs'[x]) = nullptr
          /\ length(bufs'[x]) = 0 /\ capacity(bufs'[x]) = 0
          /\ \/ call'.op \in {"moved_from", "move_ctor", "move_assign"}
             \/ alive[x] /\ bufs[x].m_allocator = 0]_vars

\* A buffer that held an allocator has received the null allocator of a
\* moved-from temporary by move assignment.
C14_Witness ==
    /\ call.op = "move_assign" /\ call.outcome = "ok"
    /\ alive[call.obj]
    /\ bufs[call.obj].m_allocator = 0
    /\ leaked

\* C15 as stated: every operation invoked on a moved-from buffer -
\* overwrite or insert with any source, erase, subview, at, destruction -
\* either fails with a reported error or behaves as on an empty buffer (one
\* that a constructor left with its allocator and no block), and none of
\* them calls through the null allocator.
C15_AsStated ==
    \A x \in Obj : alive[x] /\ bufs[x].m_allocator = 0 =>
        LET b == bufs[x]
            e == [b EXCEPT !.m_allocator = 1]
            Inert(r, re) ==
                /\ r.outcome # "crash"
                /\ r.outcome = "ok" =>
                      /\ re.outcome = "ok"
                      /\ r.buf = [re.buf EXCEPT !.m_allocator = 0]
                      /\ r.heap = re.heap /\ r.ret = re.ret
        IN  /\ \A src \in Sources, o \in Offsets(x), a \in Responses :
                  /\ Inert(overwrite(b, heap, src, PtrAdd(b.m_begin, o), a),
                           overwrite(e, heap, src, PtrAdd(e.m_begin, o), a))
                  /\ Inert(insert(b, heap, src, PtrAdd(b.m_begin, o), a),
                           insert(e, heap, src, PtrAdd(e.m_begin, o), a))
            /\ \A f \in Offsets(x), l \in Offsets(x) :
                  Inert(erase(b, heap, PtrAdd(b.m_begin, f), PtrAdd(b.m_begin, l)),
                        erase(e, heap, PtrAdd(e.m_begin, f), PtrAdd(e.m_begin, l)))
            /\ \A i \in 0..1, j \in 0..1 :
                  /\ \A base \in Bases(heap, b.m_begin) :
                        Inert(subview(b, heap, i, j, base), subview(e, heap, i, j, base))
                  /\ Inert(at(b, heap, i), at(e, heap, i))
            /\ Inert(dtor(b, heap), dtor(e, heap))

\* A write that had to grow a moved-from buffer has called allocate through
\* the null allocator.
C15_Witness ==
    /\ call.op \in {"overwrite", "insert"} /\ call.outcome = "crash"
    /\ alive[call.obj]
    /\ bufs[call.obj].m_allocator = 0
    /\ data(bufs[call.obj]) = nullptr

\* The bytes of heap h2 that lie outside view V are those of the heap, and
\* the same blocks are outstanding.
OutsideKept(h2, V) ==
    \A k \in Blocks :
        /\ h2[k].st = heap[k].st
        /\ Len(h2[k].bytes) = Len(heap[k].bytes)
        /\ \A i \in 1..Len(heap[k].bytes) :
              (k # V.m_begin.blk \/ i <= V.m_begin.off \/ i > V.m_end.off) =>
                  h2[k].bytes[i] = heap[k].bytes[i]

\* C16: weak_buffer::overwrite of an ordered source of n bytes at offset o
\* of a view of length L returns exactly when 0 <= o <= L and n <= L - o,
\* and throws otherwise; when it returns, bytes [o, o + n) are the source,
\* every other byte is unchanged, the view's data pointer and length are
\* unchanged and the call returns position o + n.
C16_ViewOverwrite ==
    \A x \in Obj : alive[x] =>
        \A V \in Views(x), src \in OrderedSources :
            \A o \in -1..(length(V) + 1) :
                LET L == length(V)
                    n == Len(SrcBytes(src))
                    old == Contents(heap, V)
                    r == weak_overwrite(V, heap, src, PtrAdd(V.m_begin, o))
                    new == Contents(r.heap, r.buf)
                IN  IF 0 <= o /\ o <= L /\ n <= L - o
                    THEN /\ r.outcome = "ok"
                         /\ r.buf = V
                         /\ \A i \in 1..L :
                               new[i] = IF i > o /\ i <= o + n THEN SrcBytes(src)[i - o]
                                        ELSE old[i]
                         /\ OutsideKept(r.heap, V)
                         /\ r.ret = PtrAdd(V.m_begin, o + n)
                    ELSE r.outcome = "fail"

\* An overwrite through a view of a full buffer has just returned.
C16_Witness ==
    /\ call.op = "weak_overwrite" /\ call.outcome = "ok"
    /\ length(bufs[call.obj]) = MaxCap

C18_ViewInsertShifts ==
    \A x \in Obj : alive[x] =>
        \A V \in Views(x), src \in OrderedSources :
            \A o \in 0..length(V) :
                LET L == length(V)
                    n == Len(SrcBytes(src))
                    old == Contents(heap, V)
                    r == weak_insert(V, heap, src, PtrAdd(V.m_begin, o))
                IN  n <= L - o =>
                        /\ r.outcome = "ok"
                        /\ r.buf = V
                        /\ Contents(r.heap, V) =
                              SubSeq(old, 1, o) \o SrcBytes(src) \o SubSeq(old, o + 1, L - n)
                        /\ OutsideKept(r.heap, V)
                        /\ r.ret = PtrAdd(V.m_begin, o + n)

\* An insert through a view of a full buffer has just returned.
C18_Witness ==
    /\ call.op = "weak_insert" /\ call.outcome = "ok"
    /\ length(bufs[call.obj]) = MaxCap

C20_AsStated ==
    \A x \in Obj : alive[x] =>
        \A V \in Views(x), offset \in size_type, size \in size_type :
            \A base \in Bases(heap, V.m_begin) :
                LET L == length(V)
                    r == subview(V, heap, offset, size, base)
                IN  /\ (r.outcome = "fail") <=> (offset > L \/ offset + size > L)
                    /\ r.outcome = "ok" =>
                          /\ length(r.ret) = size
                          /\ Contents(heap, r.ret) =
                                SubSeq(Contents(heap, V), offset + 1, offset + size)
                          /\ \A o2 \in 0..size, s2 \in 0..size : o2 + s2 <= size =>
                                LET inner == subview(r.ret, heap, o2, s2, base)
                                    direct == subview(V, heap, offset + o2, s2, base)
                                IN  /\ inner.outcome = "ok" /\ direct.outcome = "ok"
                                    /\ inner.ret = direct.ret

\* The statement of C20 for the calls in which no address wraps: those with
\* the address of begin plus offset plus size inside the address space.
C20_WithoutWrap ==
    \A x \in Obj : alive[x] =>
        \A V \in Views(x), offset \in size_type, size \in size_type :
            \A base \in Bases(heap, V.m_begin) :
                LET L == length(V)
                    r == subview(V, heap, offset, size, base)
                IN  base + V.m_begin.off + offset + size < SizeModulus =>
                    /\ (r.outcome = "fail") <=> (offset > L \/ offset + size > L)
                    /\ r.outcome = "ok" =>
                          /\ length(r.ret) = size
                          /\ Contents(heap, r.ret) =
                                SubSeq(Contents(heap, V), offset + 1, offset + size)
                          /\ \A o2 \in 0..size, s2 \in 0..size : o2 + s2 <= size =>
                                LET inner == subview(r.ret, heap, o2, s2, base)
                                    direct == subview(V, heap, offset + o2, s2, base)
                                IN  /\ inner.outcome = "ok" /\ direct.outcome = "ok"
                                    /\ inner.ret = direct.ret

\* A subview of a full buffer has just returned a view that is not a part
\* of the buffer's [begin, end].
C20_Witness ==
    /\ call.op = "subview" /\ call.outcome = "ok" /\ call.grew
    /\ alive[call.obj]
    /\ length(bufs[call.obj]) = MaxCap

\* C21 as stated: for a view of length L (x.view(), whose first, last and
\* last_from are the owning buffer's, or a part of it) and every n of
\* size_type, first(n) is subview(0, n), last(n) is subview(L - n, n) and
\* last_from(n) is subview(n, L - n); each throws exactly when n > L, and
\* every view returned is a part of [begin, end] of its source.
C21_AsStated ==
    \A x \in Obj : alive[x] =>
        \A V \in Views(x), n \in size_type :
            \A base \in Bases(heap, V.m_begin) :
                LET L == length(V)
                    f == first(V, heap, n, base)
                    l == last(V, heap, n, base)
                    lf == last_from(V, heap, n, base)
                    Same(r, s) == r.outcome = s.outcome /\ (r.outcome = "ok" => r.ret = s.ret)
                IN  /\ (f.outcome = "fail") <=> (n > L)
                    /\ (l.outcome = "fail") <=> (n > L)
                    /\ (lf.outcome = "fail") <=> (n > L)
                    /\ Same(f, subview(V, heap, 0, n, base))
                    /\ n <= L => /\ Same(l, subview(V, heap, L - n, n, base))
                                 /\ Same(lf, subview(V, heap, n, L - n, base))
                    /\ f.outcome = "ok" => Within(V, f.ret)
                    /\ l.outcome = "ok" => Within(V, l.ret)
                    /\ lf.outcome = "ok" => Within(V, lf.ret)

\* The statement of C21 for the calls in which no address wraps: those with
\* the address of begin plus n inside the address space.
C21_WithoutWrap ==
    \A x \in Obj : alive[x] =>
        \A V \in Views(x), n \in size_type :
            \A base \in Bases(heap, V.m_begin) :
                LET L == length(V)
                    f == first(V, heap, n, base)
                    l == last(V, heap, n, base)
                    lf == last_from(V, heap, n, base)
                    Same(r, s) == r.outcome = s.outcome /\ (r.outcome = "ok" => r.ret = s.ret)
                IN  base + V.m_begin.off + n < SizeModulus =>
                    /\ (f.outcome = "fail") <=> (n > L)
                    /\ (l.outcome = "fail") <=> (n > L)
                    /\ (lf.outcome = "fail") <=> (n > L)
                    /\ Same(f, subview(V, heap, 0, n, base))
                    /\ n <= L => /\ Same(l, subview(V, heap, L - n, n, base))
                                 /\ Same(lf, subview(V, heap, n, L - n, base))
                    /\ f.outcome = "ok" => Within(V, f.ret)
                    /\ l.outcome = "ok" => Within(V, l.ret)
                    /\ lf.outcome = "ok" => Within(V, lf.ret)

\* first, last or last_from of a full buffer has just returned a view that
\* is not a part of the buffer's [begin, end].
C21_Witness ==
    /\ call.op \in {"first", "last", "last_from"} /\ call.outcome = "ok" /\ call.grew
    /\ alive[call.obj]
    /\ length(bufs[call.obj]) = MaxCap

\* C22: the constructors of owning_buffer.  Each throws for a null
\* allocator, and otherwise: the default one gives length 0, capacity 0 and
\* null data and leaves the allocator alone; the pre-sizing one gives length
\* 0 and capacity n, asks the allocator only if n > 0 and throws if it is
\* given the null block; the filling one gives length = capacity = n with
\* every byte equal to v; the copying one gives length = capacity = the
\* view's length with the view's bytes; each starts with policy mult2x, and
\* a constructor that throws leaves the heap as it was.
C22_Constructors ==
    \A alloc \in {0, 1}, a \in Responses :
        LET Fresh(r, n) ==
                /\ r.buf.m_allocator = alloc
                /\ r.buf.m_growth = "mult2x"
                /\ capacity(r.buf) = n
                /\ IF n = 0
                   THEN data(r.buf) = nullptr /\ r.heap = heap
                   ELSE /\ data(r.buf) = allocate_ptr(heap, n, a)
                        /\ heap[data(r.buf).blk].st = "free"
                        /\ r.heap[data(r.buf).blk].st = "live"
                        /\ \A k \in Blocks : k # data(r.buf).blk => r.heap[k] = heap[k]
            Made(r, n) ==
                IF alloc = 0 \/ (n > 0 /\ allocate_ptr(heap, n, a) = nullptr)
                THEN r.outcome = "fail" /\ r.heap = heap
                ELSE r.outcome = "ok" /\ Fresh(r, n)
            d == ctor_default(alloc)
        IN  /\ IF alloc = 0 THEN d.outcome = "fail"
               ELSE /\ d.outcome = "ok"
                    /\ length(d.buf) = 0 /\ capacity(d.buf) = 0 /\ data(d.buf) = nullptr
                    /\ d.buf.m_allocator = alloc /\ d.buf.m_growth = "mult2x"
            /\ \A n \in Sizes :
                  LET r == ctor_capacity(heap, n, alloc, a)
                  IN  Made(r, n) /\ (r.outcome = "ok" => length(r.buf) = 0)
            /\ \A n \in Sizes, v \in Byte :
                  LET r == ctor_fill(heap, n, v, alloc, a)
                  IN  /\ Made(r, n)
                      /\ r.outcome = "ok" =>
                            /\ length(r.buf) = n
                            /\ Contents(r.heap, r.buf) = [i \in 1..n |-> v]
            /\ \A cp \in SeqsUpTo(Byte, MaxSrc) :
                  LET r == ctor_copy(heap, cp, alloc, a)
                  IN  /\ Made(r, Len(cp))
                      /\ r.outcome = "ok" =>
                            /\ length(r.buf) = Len(cp)
                            /\ Contents(r.heap, r.buf) = cp

\* A filling constructor has just returned a buffer of MaxCap bytes.
C22_Witness ==
    /\ call.op = "ctor_fill" /\ call.outcome = "ok"
    /\ alive[call.obj]
    /\ length(bufs[call.obj]) = MaxCap /\ capacity(bufs[call.obj]) = MaxCap

\* The non-null, non-empty views a caller passes to write_bytes, some of them
\* longer than any capacity.
WrittenViews == {UserView(FALSE, arr) : arr \in SeqsUpTo(Byte, MaxCap + 1) \ {<<>>}}

\* C23: on a memory_output_stream with growth policy none and capacity C,
\* write_bytes with a non-empty input never fails: it returns
\* min(input length, C - position), stores exactly that prefix of the input
\* at the old position, advances the position by the count returned, and
\* returns 0 when the position is C.
C23_FixedWrite ==
    \A x \in Obj :
        (IsStream(x, {"output"}) /\ bufs[x].m_growth = "none") =>
            \A input \in WrittenViews, a \in Responses :
                LET s == StreamOf(x)
                    C == capacity(bufs[x])
                    q == s.m_position
                    n == Minimum(Len(input.arr), C - q)
                    r == write_bytes(s, heap, input, a)
                IN  /\ r.outcome = "ok"
                    /\ r.ret = n
                    /\ r.strm.m_position = q + n
                    /\ r.heap = Store(heap, PtrAdd(bufs[x].m_begin, q), SubSeq(input.arr, 1, n))
                    /\ r.strm.m_buffer.m_begin = bufs[x].m_begin
                    /\ capacity(r.strm.m_buffer) = C
                    /\ length(r.strm.m_buffer) = Max(length(bufs[x]), q + n)
                    /\ (q = C => r.ret = 0)

\* A write on a fixed stream whose position is its capacity has returned 0.
C23_Witness ==
    /\ call.op = "write_bytes" /\ call.outcome = "ok" /\ call.ret = 0
    /\ alive[call.obj] /\ streams[call.obj].kind = "output"
    /\ bufs[call.obj].m_growth = "none"
    /\ capacity(bufs[call.obj]) = MaxCap
    /\ streams[call.obj].m_position = MaxCap

\* C24: memory_input_stream::read_bytes with a non-null, non-empty output
\* returns n = min(output length, length - position), copies the stream's
\* bytes [position, position + n) to the first n bytes of the output,
\* advances the position by n and leaves the stream's bytes and length as
\* they are; at the end of the stream it returns 0 and read_byte returns -1.
C24_Read ==
    \A x \in Obj :
        IsStream(x, {"input"}) =>
            LET s == StreamOf(x)
                L == length(bufs[x])
                q == s.m_position
                b == read_byte(s, heap)
            IN  /\ \A output \in WrittenViews :
                      LET n == Minimum(Len(output.arr), L - q)
                          r == read_bytes(s, heap, output)
                      IN  /\ r.outcome = "ok"
                          /\ r.ret = n
                          /\ SubSeq(r.out, 1, n) = SubSeq(Contents(heap, bufs[x]), q + 1, q + n)
                          /\ SubSeq(r.out, n + 1, Len(r.out))
                                = SubSeq(output.arr, n + 1, Len(output.arr))
                          /\ Len(r.out) = Len(output.arr)
                          /\ r.strm = Stream(bufs[x], q + n)
                          /\ r.heap = heap
                          /\ (q = L => r.ret = 0)
                /\ b.outcome = "ok" /\ b.heap = heap
                /\ IF q = L THEN b.ret = -1 /\ b.strm = s
                   ELSE b.ret = Contents(heap, bufs[x])[q + 1] /\ b.strm = Stream(bufs[x], q + 1)

\* read_byte has returned -1 at the end of a stream that holds bytes.
C24_Witness ==
    /\ call.op = "read_byte" /\ call.outcome = "ok" /\ call.ret = -1
    /\ alive[call.obj] /\ streams[call.obj].kind = "input"
    /\ length(bufs[call.obj]) = MaxSrc
    /\ streams[call.obj].m_position = MaxSrc

\* bswap reverses the bytes of every value and is its own inverse, on a
\* build of either order.
BswapReverses ==
    \A size \in NumericSizes, native \in Endian :
        \A v \in NumericValues(size) :
            /\ bswap(v, size) \in NumericValues(size)
            /\ ObjectBytes(bswap(v, size), size, native) = Reverse(ObjectBytes(v, size, native))
            /\ bswap(bswap(v, size), size) = v
            /\ ObjectValue(ObjectBytes(v, size, native), native) = v

\* C25: for every numeric value v of 1, 2, 4 or 8 bytes and either byte
\* order E, write_numeric<T, E>(v) followed by read_numeric<T, E> from the
\* same position yields v; the bytes written for one order are the reversal
\* of those written for the other; and read_numeric and write_numeric return
\* false when fewer than sizeof(T) bytes are transferred.
C25_Numeric ==
    /\ BswapReverses
    /\ \A x \in Obj, size \in NumericSizes, native \in Endian :
          LET s == StreamOf(x)
              q == s.m_position
              room == capacity(bufs[x]) - q
              left == length(bufs[x]) - q
          IN  /\ IsStream(x, {"output"}) =>
                    \A v \in NumericValues(size) :
                        LET w == [E \in Endian |-> write_numeric(s, heap, size, v, E, native, NoBlock)]
                            Written(E) == Load(w[E].heap, PtrAdd(bufs[x].m_begin, q), size)
                        IN  /\ \A E \in Endian : w[E].outcome = "ok" /\ w[E].ret = (size <= room)
                            /\ size <= room =>
                                  /\ Written("little") = ObjectBytes(v, size, "little")
                                  /\ Written("big") = Reverse(Written("little"))
                                  /\ \A E \in Endian, a \in NumericResponses :
                                        LET inp == reopen(w[E].strm, w[E].heap, a)
                                            sought == [inp.strm EXCEPT !.m_position = q]
                                            r == read_numeric(sought, inp.heap, size, 0, E, native)
                                        IN  inp.outcome = "ok" =>
                                               r.outcome = "ok" /\ r.ret = TRUE /\ r.out = v
              /\ IsStream(x, {"input"}) =>
                    \A E \in Endian :
                        LET r == read_numeric(s, heap, size, 0, E, native)
                        IN  r.outcome = "ok" /\ r.ret = (size <= left)

\* read_numeric has read back the value written for the largest size.
C25_Witness ==
    /\ call.op = "read_numeric" /\ call.outcome = "ok" /\ call.ret = TRUE
    /\ call.value = NumericProbe(NumericRoom)
    /\ alive[call.obj] /\ streams[call.obj].kind = "input"
    /\ streams[call.obj].m_position = NumericRoom

\* C26 as stated: once all buffers are destroyed every block obtained from
\* the allocator has been returned to it, whatever constructions, growing
\* writes, moves and destructions came before.
C26_AsStated ==
    (\A x \in Obj : ~alive[x]) =>
        /\ ~leaked
        /\ \A k \in Blocks : heap[k].st = "free"

\* A buffer whose block was lost in a move assignment has been destroyed:
\* no object is left and the block was never returned.
C26_Witness ==
    /\ call.op = "dtor" /\ call.outcome = "ok"
    /\ \A x \in Obj : ~alive[x]
    /\ leaked

\* A block is lost only in a move assignment: in x = std::move(tmp) with x
\* holding a block, and in tmp = std::move(x) with tmp holding one.
C26_LostOnlyInMoveAssignment ==
    [][(~leaked /\ leaked') =>
          /\ call'.op \in {"move_assign", "moved_from", "stream_move_assign"}
          /\ \/ bufs[call'.obj].m_begin # nullptr
             \/ call'.op = "moved_from"]_vars

\* p is a block that allocate returned and that is outstanding in heap h.
Outstanding(h, p) == p # nullptr /\ p.off = 0 /\ h[p.blk].st = "live"

\* The deallocate calls of the destructor and of growth by a request over,
\* with allocator answer a, keep to the claim.
DeallocatesOutstanding(b, h, over, a) ==
    LET nc == next_capacity(b, over)
        d == do_realloc_deallocate(b, h, nc.val, a)
    IN  /\ \A i \in 1..Len(dtor_deallocate(b)) : Outstanding(h, dtor_deallocate(b)[i])
        /\ ~nc.thrown =>
              /\ \A i \in 1..Len(d.ptrs) : Outstanding(d.heap, d.ptrs[i])
              /\ Len(d.ptrs) > 0 => Outstanding(d.heap, d.allocation) /\ d.allocation # d.ptrs[1]

\* C27 as stated: every deallocate call of an owning buffer, in do_realloc
\* and in the destructor, passes a block that allocate returned and that is
\* still outstanding - never a null pointer, never a block twice - and on
\* growth the new block is allocated before the old one is deallocated.
C27_AsStated ==
    \A x \in Obj :
        (Running /\ alive[x]) =>
            \A a \in Responses :
                \A over \in (capacity(bufs[x]) + 1)..(MaxCap + 1) :
                    DeallocatesOutstanding(bufs[x], heap, over, a)

\* A buffer of capacity 0 has grown for the first time: under mult2x, to
\* capacity 1.
C27_Witness ==
    /\ call.op = "overwrite" /\ call.outcome = "ok" /\ call.grew
    /\ alive[call.obj]
    /\ bufs[call.obj].m_growth = "mult2x"
    /\ capacity(bufs[call.obj]) = 1

\* The same holds for every buffer that holds a block: the null pointer is
\* passed only by the first growth of a buffer of capacity 0.
C27_OnceAllocated ==
    \A x \in Obj :
        (Running /\ alive[x] /\ capacity(bufs[x]) > 0) =>
            \A a \in Responses :
                \A over \in (capacity(bufs[x]) + 1)..(MaxCap + 1) :
                    DeallocatesOutstanding(bufs[x], heap, over, a)

\* C28: in every reachable state of a memory stream, after any seeks, reads,
\* writes and moves, failed calls included, 0 <= position <= length <=
\* capacity, and a seek, read or write that fails leaves the position as it
\* was.
C28_Position ==
    \A x \in Obj :
        IsStream(x, StreamKinds) =>
            LET s == StreamOf(x)
                q == s.m_position
            IN  /\ 0 <= q
                /\ q <= length(bufs[x])
                /\ length(bufs[x]) <= capacity(bufs[x])
                /\ \A origin \in SeekOrigins, offset \in SeekOffsets :
                      LET r == seek(s, heap, origin, offset)
                      IN  r.outcome = "fail" => r.strm = s
                /\ streams[x].kind = "input" =>
                      \A output \in OutputViews :
                          LET r == read_bytes(s, heap, output)
                          IN  r.outcome = "fail" => r.strm = s
                /\ streams[x].kind = "output" =>
                      \A input \in InputViews, a \in Responses :
                          LET r == write_bytes(s, heap, input, a)
                          IN  r.outcome = "fail" => r.strm = s

\* A seek has failed on a stream whose position is at the end of MaxCap
\* bytes, and the position is still there.
C28_Witness ==
    /\ call.op = "seek" /\ call.outcome = "fail"
    /\ alive[call.obj] /\ streams[call.obj].kind = "output"
    /\ streams[call.obj].m_position = MaxCap
    /\ length(bufs[call.obj]) = MaxCap

\* C29 as stated: on a memory stream of length L (L = 0 included) at
\* position q the three seeks accept the same targets: for every p in
\* [0, L], seek_begin(p), seek_current(p - q) and seek_end(p - L) succeed and
\* set the position to p, and for every other p all three fail.
C29_AsStated ==
    \A x \in Obj :
        IsStream(x, StreamKinds) =>
            LET s == StreamOf(x)
                L == length(bufs[x])
                q == s.m_position
            IN  \A p \in SeekOffsets :
                    LET b == seek(s, heap, "begin", p)
                        c == seek(s, heap, "current", p - q)
                        e == seek(s, heap, "end", p - L)
                    IN  IF 0 <= p /\ p <= L
                        THEN \A r \in {b, c, e} : r.outcome = "ok" /\ r.strm.m_position = p
                        ELSE \A r \in {b, c, e} : r.outcome = "fail"

\* seek_begin(0) has failed on a stream of length 0: the only position of
\* [0, 0] was named.
C29_Witness ==
    /\ call.op = "seek" /\ call.origin = "begin" /\ call.inside
    /\ call.outcome = "fail"
    /\ alive[call.obj] /\ length(bufs[call.obj]) = 0

\* What the seeks accept: seek_begin the targets [0, L), seek_current
\* [0, L] and seek_end (0, L]; a seek that succeeds sets the position to its
\* target.
C29_Accepted ==
    \A x \in Obj :
        IsStream(x, StreamKinds) =>
            LET s == StreamOf(x)
                L == length(bufs[x])
                q == s.m_position
            IN  \A p \in SeekOffsets :
                    LET b == seek(s, heap, "begin", p)
                        c == seek(s, heap, "current", p - q)
                        e == seek(s, heap, "end", p - L)
                    IN  /\ b.outcome = (IF 0 <= p /\ p < L THEN "ok" ELSE "fail")
                        /\ c.outcome = (IF 0 <= p /\ p <= L THEN "ok" ELSE "fail")
                        /\ e.outcome = (IF 0 < p /\ p <= L THEN "ok" ELSE "fail")
                        /\ \A r \in {b, c, e} : r.outcome = "ok" => r.strm.m_position = p

\* C30 as stated: under mult2x, with size_type SizeBits wide and doubling
\* taken modulo 2^SizeBits, next_capacity(min_required) terminates and
\* returns a value >= min_required, for every capacity and every
\* min_required of size_type.
C30_AsStated ==
    (loop.pc = "loop") ~> (loop.pc = "done" /\ loop.next >= loop.over)

\* The doubling has wrapped round to 0 below a request that is not 0: the
\* loop's condition stays true.
C30_Witness ==
    /\ loop.pc = "loop"
    /\ loop.next = 0
    /\ loop.over > 0

\* For the requests of up to half the range of size_type the call
\* terminates and returns a value >= min_required, and no doubling wraps.
C30_UpToHalf ==
    (loop.pc = "loop" /\ loop.over <= SizeModulus \div 2)
        ~> (loop.pc = "done" /\ loop.next >= loop.over)

\* A call whose doubling has wrapped never returns.
C30_WrappedNeverReturns ==
    [](C30_Witness => [](loop.pc = "loop"))

\* A call that returns, returns a value >= min_required that is the capacity
\* (1 for capacity 0) times a power of two.
C30_Returned ==
    loop.pc = "done" =>
        /\ loop.next >= loop.over
        /\ \E k \in 0..SizeBits : loop.next = Max(1, loop.capacity) * 2^k

====
